---- MODULE Spec2Model ----
(***************************************************************************)
(* vtprotobuf: the pool feature generator (features/pool), the code it     *)
(* emits (vtprotoPool_T, ResetVT, ReturnToVTPool, TFromVTPool), the grpc   *)
(* and drpc codecs, and the wire encode / decode / size routines.          *)
(***************************************************************************)
EXTENDS Integers, Sequences, FiniteSets, TLC

(***************************************************************************)
(* Bounds of the model.                                                    *)
(***************************************************************************)
NThreads == 2
NMsg == 2
NKid == 2
MaxCap == 2
MaxWrites == 2

(***************************************************************************)
(* Small helpers.                                                          *)
(***************************************************************************)
Range(s) == {s[i] : i \in 1 .. Len(s)}

\* The function f on 1 .. n as the sequence of its values
AsSeq(f) == SubSeq(f, 1, Len(f))

Perms(S) == {p \in [1 .. Cardinality(S) -> S] : \A a \in S : \E i \in DOMAIN p : p[i] = a}

(***************************************************************************)
(* The schema the generators are run on.  MsgTypes are the messages of the *)
(* file with what ShouldPool, IsMapEntry and IsOpaque read of them; the    *)
(* field plans are what the generator reads of each protogen.Field.        *)
(***************************************************************************)
Config == [Poolable |-> {}, PoolableExclude |-> {}]

MsgTypes ==
  [Msg       |-> [isNil |-> FALSE, ident |-> "Msg", mempool |-> "true", mapEntry |-> FALSE, opaque |-> FALSE],
   Child     |-> [isNil |-> FALSE, ident |-> "Child", mempool |-> "true", mapEntry |-> FALSE, opaque |-> FALSE],
   TagsEntry |-> [isNil |-> FALSE, ident |-> "TagsEntry", mempool |-> "none", mapEntry |-> TRUE, opaque |-> FALSE],
   None      |-> [isNil |-> TRUE, ident |-> "", mempool |-> "none", mapEntry |-> FALSE, opaque |-> FALSE]]

\* A ShouldPool that looks at the include list before the exclude list.
ShouldPoolIncludeFirst(cfg, message) ==
  IF message.isNil THEN FALSE
  ELSE IF message.ident \in cfg.Poolable THEN TRUE
  ELSE IF message.ident \in cfg.PoolableExclude THEN FALSE
  ELSE message.mempool = "true"

ShouldPool(cfg, message) ==
  IF message.isNil \/ message.ident \in cfg.PoolableExclude THEN FALSE
  ELSE IF message.ident \in cfg.Poolable THEN TRUE
  ELSE IF message.mempool \in {"true", "false"} THEN message.mempool = "true"
  ELSE FALSE

FP(name, num, kind, list, map, oneof, synthetic, explicit, message) ==
  [name |-> name, num |-> num, kind |-> kind, list |-> list, map |-> map,
   oneof |-> oneof, synthetic |-> synthetic, explicit |-> explicit, message |-> message]

MsgFields ==
  << FP("Num",     1,  "scalar", FALSE, FALSE, "",         FALSE, FALSE, "None"),
     FP("Opt",     2,  "scalar", FALSE, FALSE, "_Opt",     TRUE,  TRUE,  "None"),
     FP("Data",    3,  "bytes",  FALSE, FALSE, "",         FALSE, FALSE, "None"),
     FP("OptData", 4,  "bytes",  FALSE, FALSE, "_OptData", TRUE,  TRUE,  "None"),
     FP("Items",   5,  "scalar", TRUE,  FALSE, "",         FALSE, FALSE, "None"),
     FP("Blobs",   6,  "bytes",  TRUE,  FALSE, "",         FALSE, FALSE, "None"),
     FP("Kids",    7,  "msg",    TRUE,  FALSE, "",         FALSE, FALSE, "Child"),
     FP("Tags",    8,  "msg",    FALSE, TRUE,  "",         FALSE, FALSE, "TagsEntry"),
     FP("Child",   9,  "msg",    FALSE, FALSE, "",         FALSE, TRUE,  "Child"),
     FP("Name",    14, "string", FALSE, FALSE, "",         FALSE, FALSE, "None"),
     FP("Raw",     15, "bytes",  FALSE, FALSE, "Choice",   FALSE, TRUE,  "None"),
     FP("Sub",     16, "msg",    FALSE, FALSE, "Choice",   FALSE, TRUE,  "Child"),
     FP("Flag",    17, "scalar", FALSE, FALSE, "Choice",   FALSE, TRUE,  "None") >>

ChildFields ==
  << FP("Id", 1, "scalar", FALSE, FALSE, "", FALSE, FALSE, "None") >>

(***************************************************************************)
(* Run-time values.  A Go slice is its backing array (arr, 0 for nil), its *)
(* length and the array's content (store, as long as the capacity).  A     *)
(* oneof slot holds the boxed wrapper of the active variant (box, 0 for a  *)
(* nil interface) with the wrapper's one field.  arr and box name an       *)
(* array or a wrapper among those the one field has had: a new one gets a  *)
(* name other than that of the one it replaces.                            *)
(***************************************************************************)
Fresh(id) == IF id = 1 THEN 2 ELSE 1

NilSlice == [arr |-> 0, len |-> 0, store |-> <<>>]

Cap(s) == Len(s.store)

Elems(s) == SubSeq(s.store, 1, s.len)

NilOneof == [tag |-> "", box |-> 0, raw |-> NilSlice, sub |-> 0, flag |-> 0]

ZeroMsg ==
  [Num |-> 0, Opt |-> <<>>, Data |-> NilSlice, OptData |-> NilSlice,
   Items |-> NilSlice, Blobs |-> NilSlice, Kids |-> NilSlice, Tags |-> {},
   Child |-> 0, Name |-> <<>>, Choice |-> NilOneof]

ZeroChild == [Id |-> 0]

\* A truncation that lets go of the backing array: m.F = nil.
SliceToNil(s) == NilSlice

\* m.F[:0]
SliceTo0(s) == [s EXCEPT !.len = 0]

\* clear(m.F): the elements up to the length are set to their zero value.
ClearSlice(s, zero) ==
  [s EXCEPT !.store = AsSeq([i \in 1 .. Len(s.store) |-> IF i <= s.len THEN zero ELSE s.store[i]])]

(***************************************************************************)
(* pool.message: the statements of the ResetVT body the generator emits    *)
(* for a message with the given fields.  A statement is a record           *)
(*   [op, f, g, i, fs, pooled];                                            *)
(*   "resetElems": for _, mm := range m.f { mm.ResetVT() | mm.Reset() }    *)
(*   "clear":      clear(m.f)                                              *)
(*   "save":       f<i> := m.f[:0]                                         *)
(*   "retOneof":   if oneof, ok := m.g.(T_f); ok { oneof.f.ReturnToVTPool() }  *)
(*   "retMsg":     m.f.ReturnToVTPool()                                    *)
(*   "saveOneof":  var saved<g>; switch c := m.g.(type) { case T_f: ... }   *)
(*   "Reset":      m.Reset()                                               *)
(*   "restore":    m.f = f<i>                                              *)
(*   "restoreOneof": m.g = saved<g>                                        *)
(***************************************************************************)
Stmt(op, f, g, i, fs, pooled) ==
  [op |-> op, f |-> f, g |-> g, i |-> i, fs |-> fs, pooled |-> pooled]

IsRealOneof(field) == field.oneof # "" /\ ~field.synthetic

\* The loop body without the handle of a repeated field: nothing to restore.
GenFieldNoListSave(cfg, field, acc) ==
  IF field.list THEN acc
  ELSE IF ~IsRealOneof(field) /\ field.kind = "bytes"
    THEN [acc EXCEPT !.stmts = Append(@, Stmt("save", field.name, "", Len(acc.saved), <<>>, FALSE)),
                     !.saved = Append(@, field.name)]
  ELSE IF IsRealOneof(field) /\ field.kind = "bytes"
    THEN [acc EXCEPT !.oneofBytes = Append(@, field.name)]
  ELSE acc

\* The loop body without the IsMap check of the singular message branch.
GenFieldNoMapCheck(cfg, field, acc) ==
  LET pooled == ShouldPool(cfg, MsgTypes[field.message])
      save   == Stmt("save", field.name, "", Len(acc.saved), <<>>, FALSE)
  IN IF field.list THEN
       [acc EXCEPT
          !.stmts = @ \o (CASE field.kind = "msg" ->
                                 << Stmt("resetElems", field.name, "", 0, <<>>, pooled) >>
                            [] field.kind \in {"bytes", "string"} ->
                                 << Stmt("clear", field.name, "", 0, <<>>, FALSE) >>
                            [] OTHER -> <<>>)
                         \o << save >>,
          !.saved = Append(@, field.name)]
     ELSE IF IsRealOneof(field) THEN
       CASE field.kind = "msg" ->
              IF pooled
                THEN [acc EXCEPT !.stmts = Append(@, Stmt("retOneof", field.name, field.oneof, 0, <<>>, TRUE))]
                ELSE acc
         [] field.kind = "bytes" -> [acc EXCEPT !.oneofBytes = Append(@, field.name)]
         [] OTHER -> acc
     ELSE
       CASE field.kind = "msg" ->
              IF pooled
                THEN [acc EXCEPT !.stmts = Append(@, Stmt("retMsg", field.name, "", 0, <<>>, TRUE))]
                ELSE acc
         [] field.kind = "bytes" ->
              [acc EXCEPT !.stmts = Append(@, save), !.saved = Append(@, field.name)]
         [] OTHER -> acc

\* What one iteration of the loop over message.Fields emits and appends,
\* given the state acc = [stmts, saved, oneofBytes] of the loop so far.
GenField(cfg, field, acc) ==
  LET pooled == ShouldPool(cfg, MsgTypes[field.message])
      save   == Stmt("save", field.name, "", Len(acc.saved), <<>>, FALSE)
  IN IF field.list THEN
       [acc EXCEPT
          !.stmts = @ \o (CASE field.kind = "msg" ->
                                 << Stmt("resetElems", field.name, "", 0, <<>>, pooled) >>
                            [] field.kind \in {"bytes", "string"} ->
                                 << Stmt("clear", field.name, "", 0, <<>>, FALSE) >>
                            [] OTHER -> <<>>)
                         \o << save >>,
          !.saved = Append(@, field.name)]
     ELSE IF IsRealOneof(field) THEN
       CASE field.kind = "msg" ->
              IF pooled
                THEN [acc EXCEPT !.stmts = Append(@, Stmt("retOneof", field.name, field.oneof, 0, <<>>, TRUE))]
                ELSE acc
         [] field.kind = "bytes" -> [acc EXCEPT !.oneofBytes = Append(@, field.name)]
         [] OTHER -> acc
     ELSE
       CASE field.kind = "msg" ->
              IF ~field.map /\ pooled
                THEN [acc EXCEPT !.stmts = Append(@, Stmt("retMsg", field.name, "", 0, <<>>, TRUE))]
                ELSE acc
         [] field.kind = "bytes" ->
              [acc EXCEPT !.stmts = Append(@, save), !.saved = Append(@, field.name)]
         [] OTHER -> acc

RECURSIVE GenFields(_, _, _, _)
GenFields(cfg, fields, k, acc) ==
  IF k > Len(fields) THEN acc
  ELSE GenFields(cfg, fields, k + 1, GenField(cfg, fields[k], acc))

OneofOf(fields, name) == (CHOOSE k \in 1 .. Len(fields) : fields[k].name = name)

\* oneofGroups: the oneof bytes fields grouped by the name of their oneof.
OneofGroupNames(fields, oneofBytes) ==
  {fields[OneofOf(fields, oneofBytes[k])].oneof : k \in 1 .. Len(oneofBytes)}

OneofGroup(fields, oneofBytes, g) ==
  SelectSeq(oneofBytes, LAMBDA n : fields[OneofOf(fields, n)].oneof = g)

\* A body that saves the oneof wrappers and never assigns them back.
GenResetVTNoOneofRestore(cfg, fields, saveOrder, restoreOrder) ==
  LET acc == GenFields(cfg, fields, 1, [stmts |-> <<>>, saved |-> <<>>, oneofBytes |-> <<>>])
      restores == [k \in 1 .. Len(acc.saved) |->
                     Stmt("restore", acc.saved[k], "", k - 1, <<>>, FALSE)]
  IN acc.stmts \o << Stmt("Reset", "", "", 0, <<>>, FALSE) >> \o restores

\* A body that assigns the handles back in the reverse of the order in which
\* they were captured: f<i> goes to another field than the one it came from.
GenResetVTRestoresReversed(cfg, fields, saveOrder, restoreOrder) ==
  LET acc == GenFields(cfg, fields, 1, [stmts |-> <<>>, saved |-> <<>>, oneofBytes |-> <<>>])
      saves == [k \in 1 .. Len(saveOrder) |->
                  Stmt("saveOneof", "", saveOrder[k], 0,
                       OneofGroup(fields, acc.oneofBytes, saveOrder[k]), FALSE)]
      restores == [k \in 1 .. Len(acc.saved) |->
                     Stmt("restore", acc.saved[Len(acc.saved) + 1 - k], "", k - 1, <<>>, FALSE)]
      orestores == [k \in 1 .. Len(restoreOrder) |->
                      Stmt("restoreOneof", "", restoreOrder[k], 0, <<>>, FALSE)]
  IN acc.stmts \o saves \o << Stmt("Reset", "", "", 0, <<>>, FALSE) >> \o restores \o orestores

\* A body without m.Reset(): the fields that are not captured keep what they
\* held, a nested message that was returned to its pool included.
GenResetVTNoReset(cfg, fields, saveOrder, restoreOrder) ==
  LET acc == GenFields(cfg, fields, 1, [stmts |-> <<>>, saved |-> <<>>, oneofBytes |-> <<>>])
      saves == [k \in 1 .. Len(saveOrder) |->
                  Stmt("saveOneof", "", saveOrder[k], 0,
                       OneofGroup(fields, acc.oneofBytes, saveOrder[k]), FALSE)]
      restores == [k \in 1 .. Len(acc.saved) |->
                     Stmt("restore", acc.saved[k], "", k - 1, <<>>, FALSE)]
  IN acc.stmts \o saves \o restores

\* The body of ResetVT.  saveOrder and restoreOrder are the orders in which the
\* two loops over the Go map oneofGroups visit its keys.
GenResetVT(cfg, fields, saveOrder, restoreOrder) ==
  LET acc == GenFields(cfg, fields, 1, [stmts |-> <<>>, saved |-> <<>>, oneofBytes |-> <<>>])
      saves == [k \in 1 .. Len(saveOrder) |->
                  Stmt("saveOneof", "", saveOrder[k], 0,
                       OneofGroup(fields, acc.oneofBytes, saveOrder[k]), FALSE)]
      restores == [k \in 1 .. Len(acc.saved) |->
                     Stmt("restore", acc.saved[k], "", k - 1, <<>>, FALSE)]
      orestores == [k \in 1 .. Len(restoreOrder) |->
                      Stmt("restoreOneof", "", restoreOrder[k], 0, <<>>, FALSE)]
  IN acc.stmts \o saves \o << Stmt("Reset", "", "", 0, <<>>, FALSE) >> \o restores \o orestores

\* The orders a loop over oneofGroups can take for these fields.
GroupOrders(cfg, fields) ==
  LET acc == GenFields(cfg, fields, 1, [stmts |-> <<>>, saved |-> <<>>, oneofBytes |-> <<>>])
  IN Perms(OneofGroupNames(fields, acc.oneofBytes))

\* A pool.message without the return for messages of the opaque API.
EmitsPoolOpaqueToo(cfg, message) ==
  ~(message.mapEntry \/ ~ShouldPool(cfg, message))

\* pool.message emits the pool code for a message only past these returns.
EmitsPool(cfg, message) ==
  ~(message.mapEntry \/ ~ShouldPool(cfg, message)) /\ ~message.opaque

(***************************************************************************)
(* The emitted code at run time.  An environment is the receiver m of      *)
(* type ty, the locals f<i> (loc) and saved<g> (so) of ResetVT, and the    *)
(* part of the heap the body reaches: the Child instances (kids) and the   *)
(* Child pool (kpool, how many times each instance is in the pool).        *)
(***************************************************************************)
FieldsOf(ty) == IF ty = "Msg" THEN MsgFields ELSE ChildFields

ZeroOf(ty) == IF ty = "Msg" THEN ZeroMsg ELSE ZeroChild

\* The ResetVT bodies generated for the two pool-eligible types.
MsgResetStmts ==
  LET o == CHOOSE o \in GroupOrders(Config, MsgFields) : TRUE
  IN GenResetVT(Config, MsgFields, o, o)

ChildResetStmts ==
  LET o == CHOOSE o \in GroupOrders(Config, ChildFields) : TRUE
  IN GenResetVT(Config, ChildFields, o, o)

ResetStmts(ty) == IF ty = "Msg" THEN MsgResetStmts ELSE ChildResetStmts

\* sync.Pool.Put
PoolPut(p, x) == [p EXCEPT ![x] = @ + 1]

\* A Get that hands x out and leaves it in the pool.
PoolTakeLeavesIt(p, x) == p

\* sync.Pool.Get when it takes x out of the pool
PoolTake(p, x) == [p EXCEPT ![x] = @ - 1]

InPool(p) == {x \in DOMAIN p : p[x] > 0}

RECURSIVE ExecAll(_, _, _)
RECURSIVE ChildResetVT(_, _)
RECURSIVE ResetElems(_, _, _, _)

\* A ReturnToVTPool that resets the Child and leaves it out of the pool.
ChildReturnResetOnly(e, c) == ChildResetVT(e, c)

\* func (m *Child) ReturnToVTPool(): if m != nil { m.ResetVT(); pool.Put(m) }
ChildReturnToVTPool(e, c) ==
  IF c = 0 THEN e
  ELSE LET r == ChildResetVT(e, c)
       IN [r EXCEPT !.kpool = PoolPut(@, c)]

\* A loop that leaves the elements as they are.
ResetElemsSkipped(e, elems, k, pooled) == e

\* A loop that returns the elements of a pool-eligible type to their pool:
\* for _, mm := range m.f { mm.ReturnToVTPool() }
RECURSIVE ResetElemsReturned(_, _, _, _)
ResetElemsReturned(e, elems, k, pooled) ==
  IF k > Len(elems) THEN e
  ELSE LET c == elems[k]
           r == IF pooled THEN ChildReturnToVTPool(e, c)
                ELSE [e EXCEPT !.kids[c] = ZeroChild]
       IN ResetElemsReturned(r, elems, k + 1, pooled)

\* for _, mm := range m.f { mm.ResetVT() } or { mm.Reset() }
ResetElems(e, elems, k, pooled) ==
  IF k > Len(elems) THEN e
  ELSE LET c == elems[k]
           r == IF pooled THEN ChildResetVT(e, c)
                ELSE [e EXCEPT !.kids[c] = ZeroChild]
       IN ResetElems(r, elems, k + 1, pooled)

ExecStmt(s, e) ==
  CASE s.op = "resetElems" -> ResetElems(e, Elems(e.m[s.f]), 1, s.pooled)
    [] s.op = "clear" -> [e EXCEPT !.m[s.f] = ClearSlice(@, <<>>)]
    [] s.op = "save" -> [e EXCEPT !.loc = (s.i :> SliceTo0(e.m[s.f])) @@ @]
    [] s.op = "retOneof" ->
         IF e.m[s.g].tag = s.f THEN ChildReturnToVTPool(e, e.m[s.g].sub) ELSE e
    [] s.op = "retMsg" -> ChildReturnToVTPool(e, e.m[s.f])
    [] s.op = "saveOneof" ->
         \* the case of the active variant truncates the bytes inside the
         \* wrapper and keeps the wrapper; no case: saved<g> stays nil
         IF e.m[s.g].tag \in Range(s.fs)
           THEN LET c == [e.m[s.g] EXCEPT !.raw = SliceTo0(@)]
                IN [e EXCEPT !.m[s.g] = c, !.so = (s.g :> c) @@ @]
           ELSE [e EXCEPT !.so = (s.g :> NilOneof) @@ @]
    [] s.op = "Reset" -> [e EXCEPT !.m = ZeroOf(e.ty)]
    [] s.op = "restore" -> [e EXCEPT !.m[s.f] = e.loc[s.i]]
    [] s.op = "restoreOneof" -> [e EXCEPT !.m[s.g] = e.so[s.g]]

ExecAll(stmts, k, e) ==
  IF k > Len(stmts) THEN e ELSE ExecAll(stmts, k + 1, ExecStmt(stmts[k], e))

NoLocals == [x \in {} |-> 0]

\* A ResetVT that leaves the receiver as it is.
ResetVTNothing(e) == e

\* func (m *T) ResetVT() on the environment's receiver: if m != nil { body }
ResetVT(e) ==
  [ExecAll(ResetStmts(e.ty), 1, [e EXCEPT !.loc = NoLocals, !.so = NoLocals])
     EXCEPT !.loc = NoLocals, !.so = NoLocals]

\* mm.ResetVT() on the Child instance c of the heap (a nil receiver: nothing)
ChildResetVT(e, c) ==
  IF c = 0 THEN e
  ELSE LET r == ResetVT([e EXCEPT !.ty = "Child", !.m = e.kids[c]])
       IN [e EXCEPT !.kids = [r.kids EXCEPT ![c] = r.m], !.kpool = r.kpool]

Env(ty, m, ks, kp) == [ty |-> ty, m |-> m, loc |-> NoLocals, so |-> NoLocals, kids |-> ks, kpool |-> kp]

(***************************************************************************)
(* The state of a program that uses the generated pool code:               *)
(*   msgs, kids   the Msg and Child instances of the heap                  *)
(*   nMsg, nKid   how many of each sync.Pool's New has allocated so far    *)
(*   pool, kpool  vtprotoPool_Msg and vtprotoPool_Child: per instance, how *)
(*                many times it is in the pool                             *)
(*   held, heldK  per thread, the Msg and Child instances it holds         *)
(*   pc, cur      per thread, where it is inside ReturnToVTPool, and on    *)
(*                which instance                                           *)
(*   writes       field writes the holders have made so far                *)
(*   snap         per Msg instance, its content when ReturnToVTPool was    *)
(*                last called on it (history)                              *)
(*   acq          per Msg instance, the content MsgFromVTPool last         *)
(*                returned it with (history)                               *)
(*   phase        where the caller of the wire routines and of the codecs  *)
(*                is: "build", "sent", "done"                              *)
(*   sent         what MarshalVT / Codec.Marshal was called on and returned*)
(*   goog         what the generic encoder returned for the same message   *)
(*   rcvd         what UnmarshalVT / Codec.Unmarshal was called on and     *)
(*                returned                                                 *)
(*   gen          the pool generator: its Config (cfg), the messages of    *)
(*                the protogen.File it is run on (file), which run it is   *)
(*                in, the messages it has still to visit, p.once, and per  *)
(*                run the lines emitted and what GenerateFile returned     *)
(*   call         the last call of MsgFromVTPool or of ShouldPool: its     *)
(*                arguments, what it found and what it returned (history)  *)
(***************************************************************************)
VARIABLES msgs, kids, nMsg, nKid, pool, kpool, held, heldK, pc, cur, writes, snap, acq,
          phase, sent, goog, rcvd, gen, call

genVars == <<gen, call>>

wireVars == <<phase, sent, goog, rcvd, genVars>>

vars == <<msgs, kids, nMsg, nKid, pool, kpool, held, heldK, pc, cur, writes, snap, acq,
          phase, sent, goog, rcvd, gen, call>>

poolVars == <<msgs, kids, nMsg, nKid, pool, kpool, held, heldK, pc, cur, writes, snap, acq, genVars>>

Threads == 1 .. NThreads

MsgIds == 1 .. NMsg

KidIds == 1 .. NKid

\* The Child instances a Msg instance refers to, the retained storage of its
\* repeated field included.
Reach(m) ==
  (Range(m.Kids.store) \cup {m.Child, m.Choice.sub}) \ {0}

\* No generator run: the generated code is that of Config for Msg and Child.
NoGen == [cfg |-> Config, file |-> <<>>, run |-> 0, todo |-> <<>>, once |-> FALSE,
          out |-> <<>>, ret |-> <<>>]

NoCall == [by |-> ""]

GenIdle == gen = NoGen /\ call = NoCall

InitPool ==
  /\ GenIdle
  /\ msgs = [i \in MsgIds |-> ZeroMsg]
  /\ kids = [c \in KidIds |-> ZeroChild]
  /\ nMsg = 0
  /\ nKid = 0
  /\ pool = [i \in MsgIds |-> 0]
  /\ kpool = [c \in KidIds |-> 0]
  /\ held = [t \in Threads |-> {}]
  /\ heldK = [t \in Threads |-> {}]
  /\ pc = [t \in Threads |-> "idle"]
  /\ cur = [t \in Threads |-> 0]
  /\ writes = 0
  /\ snap = [i \in MsgIds |-> ZeroMsg]
  /\ acq = [i \in MsgIds |-> ZeroMsg]
  /\ phase = "build"
  /\ sent = [by |-> ""]
  /\ goog = [by |-> ""]
  /\ rcvd = [by |-> ""]

\* func MsgFromVTPool() *Msg, when sync.Pool.Get takes instance i out of the pool
FromVTPoolTake(t, i) ==
  /\ pc[t] = "idle"
  /\ pool[i] > 0
  /\ pool' = PoolTake(pool, i)
  /\ held' = [held EXCEPT ![t] = @ \cup {i}]
  /\ heldK' = [heldK EXCEPT ![t] = @ \cup Reach(msgs[i])]
  /\ acq' = [acq EXCEPT ![i] = msgs[i]]
  /\ UNCHANGED <<msgs, kids, nMsg, nKid, kpool, pc, cur, snap>>

\* func MsgFromVTPool() *Msg, when sync.Pool.Get calls New: return &Msg{}
FromVTPoolNew(t) ==
  /\ pc[t] = "idle"
  /\ nMsg < NMsg
  /\ nMsg' = nMsg + 1
  /\ msgs' = [msgs EXCEPT ![nMsg + 1] = ZeroMsg]
  /\ held' = [held EXCEPT ![t] = @ \cup {nMsg + 1}]
  /\ acq' = [acq EXCEPT ![nMsg + 1] = ZeroMsg]
  /\ UNCHANGED <<kids, nKid, pool, kpool, heldK, pc, cur, snap>>

\* func (m *Msg) ReturnToVTPool(), first statement: m.ResetVT()
ReturnReset(t, i) ==
  /\ pc[t] = "idle"
  /\ i \in held[t]
  /\ LET r == ResetVT(Env("Msg", msgs[i], kids, kpool))
     IN /\ msgs' = [msgs EXCEPT ![i] = r.m]
        /\ kids' = r.kids
        /\ kpool' = r.kpool
        \* a Child handed to its pool is no longer the caller's
        /\ heldK' = [heldK EXCEPT ![t] = @ \ {c \in KidIds : r.kpool[c] > kpool[c]}]
  /\ snap' = [snap EXCEPT ![i] = msgs[i]]
  /\ pc' = [pc EXCEPT ![t] = "put"]
  /\ cur' = [cur EXCEPT ![t] = i]
  /\ UNCHANGED <<nMsg, nKid, pool, held, acq>>

\* func (m *Msg) ReturnToVTPool(), second statement: vtprotoPool_Msg.Put(m)
ReturnPut(t) ==
  /\ pc[t] = "put"
  /\ pool' = PoolPut(pool, cur[t])
  /\ held' = [held EXCEPT ![t] = @ \ {cur[t]}]
  /\ heldK' = [heldK EXCEPT ![t] = @ \ Reach(msgs[cur[t]])]
  /\ pc' = [pc EXCEPT ![t] = "idle"]
  /\ cur' = [cur EXCEPT ![t] = 0]
  /\ UNCHANGED <<msgs, kids, nMsg, nKid, kpool, snap, acq>>

(***************************************************************************)
(* What the holder of an instance does with it between acquiring and       *)
(* returning it: it assigns fields, as the tests and the decoder do.       *)
(***************************************************************************)
Holds(t, i) == pc[t] = "idle" /\ i \in held[t]

ValuesOf(f) ==
  CASE f = "Num" -> {1}
    [] f = "Opt" -> {<<0>>}
    [] f = "Name" -> {<<97>>}
    [] f = "Tags" -> {{<<1, 1>>}}

ValueFields == {"Num", "Opt", "Tags"}

SliceFields == {"Data", "OptData", "Items", "Blobs"}

ElemOf(f) == IF f = "Blobs" THEN <<1>> ELSE 1

ZeroElemOf(f) == IF f = "Blobs" THEN <<>> ELSE 0

Fill(n, c, v, zero) == AsSeq([k \in 1 .. c |-> IF k <= n THEN v ELSE zero])

\* m.f = make(T, n, c) filled, or m.f = append(m.f[:0], ...) within the capacity
SliceAssign(s, id, v, zero) ==
  {[arr |-> id, len |-> n, store |-> Fill(n, c, v, zero)] :
     <<n, c>> \in {<<0, 0>>, <<1, 1>>, <<1, MaxCap>>, <<MaxCap, MaxCap>>}}
  \cup {[s EXCEPT !.len = n,
                  !.store = AsSeq([k \in 1 .. Len(s.store) |-> IF k <= n THEN v ELSE s.store[k]])] :
          n \in IF s.arr # 0 THEN 1 .. Cap(s) ELSE {}}

\* m.f = v for a scalar, an optional scalar, a string or a map field
WriteValue(t, i, f) ==
  /\ Holds(t, i)
  /\ \E v \in ValuesOf(f) : msgs' = [msgs EXCEPT ![i][f] = v]
  /\ UNCHANGED <<kids, nMsg, nKid, pool, kpool, held, heldK, pc, cur, snap, acq>>

\* m.f = ... for a bytes field or a repeated scalar / bytes field
WriteSlice(t, i, f) ==
  /\ Holds(t, i)
  /\ \E v \in SliceAssign(msgs[i][f], Fresh(msgs[i][f].arr), ElemOf(f), ZeroElemOf(f)) :
       msgs' = [msgs EXCEPT ![i][f] = v]
  /\ UNCHANGED <<kids, nMsg, nKid, pool, kpool, held, heldK, pc, cur, snap, acq>>

\* GeneratedFile.Alloc for the pool-eligible Child: v := ChildFromVTPool(): the
\* instances sync.Pool.Get can return, with the pool and the allocation count after.
AllocChild ==
  {[c |-> c, kpool |-> PoolTake(kpool, c), nKid |-> nKid] : c \in InPool(kpool)}
  \cup {[c |-> nKid + 1, kpool |-> kpool, nKid |-> nKid + 1] : x \in IF nKid < NKid THEN {0} ELSE {}}

\* m.Kids = append(m.Kids, child) with a Child from Alloc
AppendKid(s, c, id) ==
  IF s.arr # 0 /\ s.len < Cap(s)
    THEN {[s EXCEPT !.len = s.len + 1, !.store[s.len + 1] = c]}
    ELSE {[arr |-> id, len |-> s.len + 1,
           store |-> AsSeq([k \in 1 .. n |-> IF k <= s.len THEN s.store[k] ELSE IF k = s.len + 1 THEN c ELSE 0])] :
            n \in {s.len + 1, MaxCap} \cap ((s.len + 1) .. MaxCap)}

WriteKid(t, i) ==
  /\ Holds(t, i)
  /\ \E a \in AllocChild, id \in {1} :
       /\ \E v \in AppendKid(msgs[i].Kids, a.c, Fresh(msgs[i].Kids.arr)) :
            msgs' = [msgs EXCEPT ![i].Kids = v]
       /\ kids' = [kids EXCEPT ![a.c] = [Id |-> id]]
       /\ kpool' = a.kpool
       /\ nKid' = a.nKid
       /\ heldK' = [heldK EXCEPT ![t] = @ \cup {a.c}]
  /\ UNCHANGED <<nMsg, pool, held, pc, cur, snap, acq>>

\* m.Child = child with a Child from Alloc, when the field is not set
WriteChild(t, i) ==
  /\ Holds(t, i)
  /\ msgs[i].Child = 0
  /\ \E a \in AllocChild, id \in {1} :
       /\ msgs' = [msgs EXCEPT ![i].Child = a.c]
       /\ kids' = [kids EXCEPT ![a.c] = [Id |-> id]]
       /\ kpool' = a.kpool
       /\ nKid' = a.nKid
       /\ heldK' = [heldK EXCEPT ![t] = @ \cup {a.c}]
  /\ UNCHANGED <<nMsg, pool, held, pc, cur, snap, acq>>

\* m.Choice = &Msg_Raw{Raw: ...}, or the bytes written into the wrapper the
\* slot already holds
WriteRaw(t, i) ==
  /\ Holds(t, i)
  /\ msgs[i].Choice.tag # "Sub"
  /\ \E fresh \in BOOLEAN :
     \E v \in SliceAssign(IF fresh THEN NilSlice ELSE msgs[i].Choice.raw,
                          Fresh(msgs[i].Choice.raw.arr), 1, 0) :
       /\ fresh \/ msgs[i].Choice.tag = "Raw"
       /\ msgs' = [msgs EXCEPT ![i].Choice =
                     [NilOneof EXCEPT !.tag = "Raw", !.raw = v,
                                      !.box = IF fresh THEN Fresh(msgs[i].Choice.box)
                                              ELSE msgs[i].Choice.box]]
  /\ UNCHANGED <<kids, nMsg, nKid, pool, kpool, held, heldK, pc, cur, snap, acq>>

\* m.Choice = &Msg_Sub{Sub: child} with a Child from Alloc, when the oneof holds no Child
WriteSub(t, i) ==
  /\ Holds(t, i)
  /\ msgs[i].Choice.tag # "Sub"
  /\ \E a \in AllocChild, id \in {1} :
       /\ msgs' = [msgs EXCEPT ![i].Choice = [NilOneof EXCEPT !.tag = "Sub", !.box = Fresh(msgs[i].Choice.box), !.sub = a.c]]
       /\ kids' = [kids EXCEPT ![a.c] = [Id |-> id]]
       /\ kpool' = a.kpool
       /\ nKid' = a.nKid
       /\ heldK' = [heldK EXCEPT ![t] = @ \cup {a.c}]
  /\ UNCHANGED <<nMsg, pool, held, pc, cur, snap, acq>>

\* m.Choice = &Msg_Flag{Flag: v}, when the oneof holds no Child
WriteFlag(t, i) ==
  /\ Holds(t, i)
  /\ msgs[i].Choice.tag # "Sub"
  /\ \E v \in {0, 1} :
       msgs' = [msgs EXCEPT ![i].Choice = [NilOneof EXCEPT !.tag = "Flag", !.box = Fresh(msgs[i].Choice.box), !.flag = v]]
  /\ UNCHANGED <<kids, nMsg, nKid, pool, kpool, held, heldK, pc, cur, snap, acq>>

(***************************************************************************)
(* One caller that acquires, fills, returns and acquires again: every      *)
(* field kind of the schema.                                               *)
(***************************************************************************)
Acquire(t, i) ==
  /\ \/ FromVTPoolTake(t, i)
     \/ FromVTPoolNew(t)
  /\ UNCHANGED writes
  /\ UNCHANGED wireVars

\* One caller that holds one instance at a time, in the runs where Get finds
\* the instance the pool holds.
AcquireOne(t, i) ==
  /\ held[t] = {}
  /\ \/ FromVTPoolTake(t, i)
     \/ InPool(pool) = {} /\ FromVTPoolNew(t)
  /\ UNCHANGED writes
  /\ UNCHANGED wireVars

Return(t, i) ==
  /\ \/ ReturnReset(t, i)
     \/ ReturnPut(t)
  /\ UNCHANGED writes
  /\ UNCHANGED wireVars

Write(t, i) ==
  /\ writes < MaxWrites
  /\ writes' = writes + 1
  /\ \/ \E f \in ValueFields : WriteValue(t, i, f)
     \/ \E f \in SliceFields : WriteSlice(t, i, f)
     \/ WriteKid(t, i)
     \/ WriteChild(t, i)
     \/ WriteRaw(t, i)
     \/ WriteSub(t, i)
     \/ WriteFlag(t, i)
  /\ UNCHANGED wireVars

NextReset ==
  \E i \in MsgIds :
    \/ AcquireOne(1, i)
    \/ Return(1, i)
    \/ Write(1, i)

SpecReset == InitPool /\ [][NextReset]_vars

(***************************************************************************)
(* Several threads that acquire, fill and return instances.                *)
(***************************************************************************)
NextPool ==
  \E t \in Threads, i \in MsgIds :
    \/ Acquire(t, i)
    \/ Return(t, i)
    \/ /\ writes < MaxWrites
       /\ writes' = writes + 1
       /\ \/ WriteValue(t, i, "Num")
          \/ WriteChild(t, i)
       /\ UNCHANGED wireVars

SpecPool == InitPool /\ [][NextPool]_vars

(***************************************************************************)
(* The wire format.  The generators of MarshalVT, SizeVT and UnmarshalVT   *)
(* and the protohelpers package are not among the sources; the routines     *)
(* below follow the design document (sections 4.2 to 4.4 and 7) and the    *)
(* names of the helpers table.  A stream is a sequence of bytes 0 .. 255.  *)
(***************************************************************************)
RECURSIVE Concat(_)
Concat(ss) == IF ss = <<>> THEN <<>> ELSE Head(ss) \o Concat(Tail(ss))

\* A size that counts every varint as one byte.
SizeOfVarintOne(x) == 1

\* protohelpers.SizeOfVarint
RECURSIVE SizeOfVarint(_)
SizeOfVarint(x) == IF x < 128 THEN 1 ELSE 1 + SizeOfVarint(x \div 128)

\* protohelpers.EncodeVarint: 7 bits a byte, low group first, the high bit
\* set on every byte but the last
RECURSIVE EncodeVarint(_)
EncodeVarint(x) ==
  IF x < 128 THEN <<x>> ELSE <<(x % 128) + 128>> \o EncodeVarint(x \div 128)

\* The wire number of a field of Msg
Number(name) == MsgFields[OneofOf(MsgFields, name)].num

WireVarint == 0

WireBytes == 2

Tag(num, wt) == EncodeVarint(num * 8 + wt)

VarintField(num, v) == Tag(num, WireVarint) \o EncodeVarint(v)

LenDelim(num, payload) == Tag(num, WireBytes) \o EncodeVarint(Len(payload)) \o payload

\* The entries of a map in one of the orders an iteration can visit them
MapOrders(tags) == Perms(tags)

(***************************************************************************)
(* The logical content of an instance: what its getters return.  A field   *)
(* with presence reads <<>> when absent and <<v>> when present; a bytes or  *)
(* repeated field without presence reads the same nil or empty.            *)
(***************************************************************************)
View(m, ks) ==
  [Num |-> m.Num,
   Opt |-> m.Opt,
   Data |-> Elems(m.Data),
   OptData |-> IF m.OptData.arr = 0 THEN <<>> ELSE <<Elems(m.OptData)>>,
   Items |-> Elems(m.Items),
   Blobs |-> Elems(m.Blobs),
   Kids |-> AsSeq([k \in 1 .. m.Kids.len |-> ks[m.Kids.store[k]]]),
   Tags |-> m.Tags,
   Child |-> IF m.Child = 0 THEN <<>> ELSE <<ks[m.Child]>>,
   Name |-> m.Name,
   Raw |-> IF m.Choice.tag = "Raw" THEN <<Elems(m.Choice.raw)>> ELSE <<>>,
   Sub |-> IF m.Choice.tag = "Sub" THEN <<ks[m.Choice.sub]>> ELSE <<>>,
   Flag |-> IF m.Choice.tag = "Flag" THEN <<m.Choice.flag>> ELSE <<>>]

EmptyView == View(ZeroMsg, <<>>)

(***************************************************************************)
(* SizeVT: the sum over the fields of tag size plus payload size, with the *)
(* omission rules of the encoder.                                          *)
(***************************************************************************)
\* A rule that omits every zero value, present or not.
EmittedNonZeroOnly(explicit, present, nonzero) == nonzero

\* The omission rule of a singular field: with explicit presence it is emitted
\* when present, whatever the value; without, when the value is not zero.
Emitted(explicit, present, nonzero) == IF explicit THEN present ELSE nonzero

RECURSIVE SumSeq(_)
SumSeq(s) == IF s = <<>> THEN 0 ELSE Head(s) + SumSeq(Tail(s))

TagSize(num) == SizeOfVarint(num * 8)

SizeLenDelim(num, l) == TagSize(num) + SizeOfVarint(l) + l

ChildSizeVT(c) == IF c.Id # 0 THEN TagSize(1) + SizeOfVarint(c.Id) ELSE 0

FieldSizeVT(name, m, ks) ==
  CASE name = "Num" -> IF Emitted(FALSE, TRUE, m.Num # 0) THEN TagSize(Number(name)) + SizeOfVarint(m.Num) ELSE 0
    [] name = "Opt" -> IF Emitted(TRUE, m.Opt # <<>>, m.Opt # <<>> /\ m.Opt[1] # 0) THEN TagSize(Number(name)) + SizeOfVarint(m.Opt[1]) ELSE 0
    [] name = "Data" -> IF Emitted(FALSE, m.Data.arr # 0, m.Data.len > 0) THEN SizeLenDelim(Number(name), m.Data.len) ELSE 0
    [] name = "OptData" -> IF Emitted(TRUE, m.OptData.arr # 0, m.OptData.len > 0) THEN SizeLenDelim(Number(name), m.OptData.len) ELSE 0
    [] name = "Items" ->
         IF m.Items.len > 0
           THEN SizeLenDelim(Number(name), SumSeq([k \in 1 .. m.Items.len |-> SizeOfVarint(m.Items.store[k])]))
           ELSE 0
    [] name = "Blobs" ->
         SumSeq([k \in 1 .. m.Blobs.len |-> SizeLenDelim(Number(name), Len(m.Blobs.store[k]))])
    [] name = "Kids" ->
         SumSeq([k \in 1 .. m.Kids.len |-> SizeLenDelim(Number(name), ChildSizeVT(ks[m.Kids.store[k]]))])
    [] name = "Tags" ->
         LET es == CHOOSE o \in MapOrders(m.Tags) : TRUE
         IN SumSeq([k \in 1 .. Len(es) |->
                      SizeLenDelim(Number(name), 1 + SizeOfVarint(es[k][1]) + 1 + SizeOfVarint(es[k][2]))])
    [] name = "Child" -> IF m.Child # 0 THEN SizeLenDelim(Number(name), ChildSizeVT(ks[m.Child])) ELSE 0
    [] name = "Name" -> IF Emitted(FALSE, TRUE, Len(m.Name) > 0) THEN SizeLenDelim(Number(name), Len(m.Name)) ELSE 0
    [] name = "Choice" ->
         CASE m.Choice.tag = "Raw" -> SizeLenDelim(Number("Raw"), m.Choice.raw.len)
           [] m.Choice.tag = "Sub" -> SizeLenDelim(Number("Sub"), ChildSizeVT(ks[m.Choice.sub]))
           [] m.Choice.tag = "Flag" -> TagSize(Number("Flag")) + SizeOfVarint(m.Choice.flag)
           [] OTHER -> 0

\* The struct fields of Msg in declaration order, the three variants of the
\* oneof in the one slot Choice
Slots == <<"Num", "Opt", "Data", "OptData", "Items", "Blobs", "Kids", "Tags", "Child", "Name", "Choice">>

SizeVT(m, ks) == SumSeq([k \in 1 .. Len(Slots) |-> FieldSizeVT(Slots[k], m, ks)])

(***************************************************************************)
(* MarshalVT: the bytes of each field, written into a buffer of SizeVT     *)
(* bytes from the tail backward in reverse field order.                    *)
(***************************************************************************)
ChildBytes(c) == IF c.Id # 0 THEN VarintField(1, c.Id) ELSE <<>>

FieldBytes(name, m, ks, ord) ==
  CASE name = "Num" -> IF Emitted(FALSE, TRUE, m.Num # 0) THEN VarintField(Number(name), m.Num) ELSE <<>>
    [] name = "Opt" -> IF Emitted(TRUE, m.Opt # <<>>, m.Opt # <<>> /\ m.Opt[1] # 0) THEN VarintField(Number(name), m.Opt[1]) ELSE <<>>
    [] name = "Data" -> IF Emitted(FALSE, m.Data.arr # 0, m.Data.len > 0) THEN LenDelim(Number(name), Elems(m.Data)) ELSE <<>>
    [] name = "OptData" -> IF Emitted(TRUE, m.OptData.arr # 0, m.OptData.len > 0) THEN LenDelim(Number(name), Elems(m.OptData)) ELSE <<>>
    [] name = "Items" ->
         IF m.Items.len > 0
           THEN LenDelim(Number(name), Concat([k \in 1 .. m.Items.len |-> EncodeVarint(m.Items.store[k])]))
           ELSE <<>>
    [] name = "Blobs" -> Concat([k \in 1 .. m.Blobs.len |-> LenDelim(Number(name), m.Blobs.store[k])])
    [] name = "Kids" ->
         Concat([k \in 1 .. m.Kids.len |-> LenDelim(Number(name), ChildBytes(ks[m.Kids.store[k]]))])
    [] name = "Tags" ->
         Concat([k \in 1 .. Len(ord) |->
                   LenDelim(Number(name), VarintField(1, ord[k][1]) \o VarintField(2, ord[k][2]))])
    [] name = "Child" -> IF m.Child # 0 THEN LenDelim(Number(name), ChildBytes(ks[m.Child])) ELSE <<>>
    [] name = "Name" -> IF Emitted(FALSE, TRUE, Len(m.Name) > 0) THEN LenDelim(Number(name), m.Name) ELSE <<>>
    [] name = "Choice" ->
         CASE m.Choice.tag = "Raw" -> LenDelim(Number("Raw"), Elems(m.Choice.raw))
           [] m.Choice.tag = "Sub" -> LenDelim(Number("Sub"), ChildBytes(ks[m.Choice.sub]))
           [] m.Choice.tag = "Flag" -> VarintField(Number("Flag"), m.Choice.flag)
           [] OTHER -> <<>>

\* A buffer being filled from the tail: the bytes, the offset i of the lowest
\* byte written (0-based, as in dAtA[i]), and whether a write fell off the
\* front of the buffer.
NewBuffer(size) == [buf |-> AsSeq([k \in 1 .. size |-> 0]), i |-> size, panic |-> FALSE]

\* i -= len(bs); copy(dAtA[i:], bs)
PutBack(b, bs) ==
  IF b.panic \/ Len(bs) > b.i THEN [b EXCEPT !.panic = TRUE]
  ELSE [b EXCEPT !.i = b.i - Len(bs),
                 !.buf = AsSeq([k \in 1 .. Len(b.buf) |->
                                  IF k > b.i - Len(bs) /\ k <= b.i THEN bs[k - (b.i - Len(bs))]
                                  ELSE b.buf[k]])]

\* A fill that takes the fields in declaration order, the first at the tail.
RECURSIVE MarshalFirstFieldLast(_, _, _, _, _)
MarshalFirstFieldLast(m, ks, ord, k, b) ==
  IF k = 0 THEN b
  ELSE MarshalFirstFieldLast(m, ks, ord, k - 1,
                             PutBack(b, FieldBytes(Slots[Len(Slots) + 1 - k], m, ks, ord)))

RECURSIVE MarshalToSizedBufferVT(_, _, _, _, _)
MarshalToSizedBufferVT(m, ks, ord, k, b) ==
  IF k = 0 THEN b
  ELSE MarshalToSizedBufferVT(m, ks, ord, k - 1, PutBack(b, FieldBytes(Slots[k], m, ks, ord)))

\* return dAtA[:n], nil with n the number of bytes b holds
Marshalled(m, ks, size, b) ==
  [m |-> m, ks |-> ks, size |-> size, i |-> b.i, panic |-> b.panic,
   data |-> IF b.panic THEN <<>> ELSE SubSeq(b.buf, 1, size - b.i)]

MarshalSized(m, ks, ord, size) ==
  Marshalled(m, ks, size, MarshalToSizedBufferVT(m, ks, ord, Len(Slots), NewBuffer(size)))

\* size := m.SizeVT(); dAtA = make([]byte, size);
\* n, err := m.MarshalToSizedBufferVT(dAtA[:size]); return dAtA[:n], nil
MarshalVT(m, ks, ord) == MarshalSized(m, ks, ord, SizeVT(m, ks))

(***************************************************************************)
(* UnmarshalVT.  A position is 1-based; a read returns [err, v, p]: the    *)
(* error, or "" with the value read and the position after it.             *)
(* MalformedInput is one of the errors of Malformed, InvalidEncoding is    *)
(* ErrInvalidUTF8.                                                         *)
(***************************************************************************)
ErrUnexpectedEOF == "ErrUnexpectedEOF"

ErrIntOverflow == "ErrIntOverflow"

ErrInvalidLength == "ErrInvalidLength"

ErrUnexpectedEndOfGroup == "ErrUnexpectedEndOfGroup"

ErrIllegalTag == "ErrIllegalTag"

ErrInvalidUTF8 == "ErrInvalidUTF8"

Malformed == {ErrUnexpectedEOF, ErrIntOverflow, ErrInvalidLength, ErrUnexpectedEndOfGroup, ErrIllegalTag}

Rd(err, v, p) == [err |-> err, v |-> v, p |-> p]

\* A reader that takes the first byte of a varint for the whole of it.
DecodeVarintOneByte(d, p, shift, acc) ==
  IF p > Len(d) THEN Rd(ErrUnexpectedEOF, 0, p) ELSE Rd("", d[p] % 128, p + 1)

\* for shift := uint(0); ; shift += 7 { ...; v |= uint64(b&0x7F) << shift; if b < 0x80 { break } }
RECURSIVE DecodeVarint(_, _, _, _)
DecodeVarint(d, p, shift, acc) ==
  IF shift >= 64 THEN Rd(ErrIntOverflow, 0, p)
  ELSE IF p > Len(d) THEN Rd(ErrUnexpectedEOF, 0, p)
  ELSE LET v == acc + (d[p] % 128) * (2 ^ shift)
       IN IF d[p] < 128 THEN Rd("", v, p + 1) ELSE DecodeVarint(d, p + 1, shift + 7, v)

\* The n.v bytes after the length n, which must lie within the input
ReadSpan(d, p, n) ==
  IF n.err # "" THEN Rd(n.err, <<>>, p)
  ELSE IF n.p + n.v - 1 > Len(d) THEN Rd(ErrUnexpectedEOF, <<>>, p)
  ELSE Rd("", SubSeq(d, n.p, n.p + n.v - 1), n.p + n.v)

\* A length, then that many bytes
ReadBytes(d, p) == ReadSpan(d, p, DecodeVarint(d, p, 0, 0))

\* The position after the length n and the n.v bytes it declares
SkipSpan(n) == IF n.err # "" THEN n ELSE Rd("", 0, n.p + n.v)

\* protohelpers.Skip, the switch on the wire type: the position after the value at p
SkipValue(d, p, wt, depth) ==
  CASE wt = 0 -> DecodeVarint(d, p, 0, 0)
    [] wt = 1 -> Rd("", 0, p + 8)
    [] wt = 2 -> SkipSpan(DecodeVarint(d, p, 0, 0))
    [] wt = 3 -> Rd("", 0, p)
    [] wt = 4 -> IF depth = 0 THEN Rd(ErrUnexpectedEndOfGroup, 0, p) ELSE Rd("", 0, p)
    [] wt = 5 -> Rd("", 0, p + 4)
    [] OTHER -> Rd(ErrIllegalTag, 0, p)

RECURSIVE Skip(_, _, _)
\* protohelpers.Skip after the value: done when no group is open
SkipRest(d, p, depth, r) ==
  IF r.err # "" THEN r
  ELSE IF depth > 0 THEN Skip(d, r.p, depth)
  ELSE IF r.p > Len(d) + 1 THEN Rd(ErrUnexpectedEOF, 0, p)
  ELSE Rd("", 0, r.p)

\* protohelpers.Skip after the tag t
SkipTag(d, p, depth, t) ==
  IF t.err # "" THEN t
  ELSE SkipRest(d, p,
                IF t.v % 8 = 3 THEN depth + 1 ELSE IF t.v % 8 = 4 THEN depth - 1 ELSE depth,
                SkipValue(d, t.p, t.v % 8, depth))

\* protohelpers.Skip from the tag at p: the position after the field, by the
\* framing of its wire type
Skip(d, p, depth) ==
  IF p > Len(d) THEN Rd(ErrUnexpectedEOF, 0, p) ELSE SkipTag(d, p, depth, DecodeVarint(d, p, 0, 0))

\* A validation that accepts every byte sequence.
ValidateUTF8Any(s) == TRUE

\* protohelpers.ValidateUTF8 (utf8.Valid): well-formed UTF-8, no overlong
\* form, no surrogate, nothing above U+10FFFF
RECURSIVE ValidateUTF8(_)
ValidateUTF8(s) ==
  LET n == Len(s)
      Cont(k, lo, hi) == k <= n /\ s[k] >= lo /\ s[k] <= hi
      Rest(k) == ValidateUTF8(SubSeq(s, k, n))
  IN IF n = 0 THEN TRUE
     ELSE CASE s[1] < 128 -> Rest(2)
            [] s[1] >= 194 /\ s[1] <= 223 -> Cont(2, 128, 191) /\ Rest(3)
            [] s[1] = 224 -> Cont(2, 160, 191) /\ Cont(3, 128, 191) /\ Rest(4)
            [] s[1] \in (225 .. 236) \cup {238, 239} -> Cont(2, 128, 191) /\ Cont(3, 128, 191) /\ Rest(4)
            [] s[1] = 237 -> Cont(2, 128, 159) /\ Cont(3, 128, 191) /\ Rest(4)
            [] s[1] = 240 -> Cont(2, 144, 191) /\ Cont(3, 128, 191) /\ Cont(4, 128, 191) /\ Rest(5)
            [] s[1] \in 241 .. 243 -> Cont(2, 128, 191) /\ Cont(3, 128, 191) /\ Cont(4, 128, 191) /\ Rest(5)
            [] s[1] = 244 -> Cont(2, 128, 143) /\ Cont(3, 128, 191) /\ Cont(4, 128, 191) /\ Rest(5)
            [] OTHER -> FALSE

\* m.f = append(m.f[:0], bs...); if m.f == nil { m.f = []byte{} }
SetBytes(s, bs) ==
  IF s.arr # 0 /\ Len(bs) <= Cap(s)
    THEN [s EXCEPT !.len = Len(bs),
                   !.store = AsSeq([k \in 1 .. Len(s.store) |-> IF k <= Len(bs) THEN bs[k] ELSE s.store[k]])]
    ELSE [arr |-> Fresh(s.arr), len |-> Len(bs), store |-> bs]

\* m.f = append(m.f, v): in place within the capacity, else on a new array
\* that holds the elements and v
AppendElem(s, v) ==
  IF s.arr # 0 /\ s.len < Cap(s)
    THEN [s EXCEPT !.len = s.len + 1, !.store[s.len + 1] = v]
    ELSE [arr |-> Fresh(s.arr), len |-> s.len + 1, store |-> Append(Elems(s), v)]

RECURSIVE AppendElems(_, _)
AppendElems(s, vs) == IF vs = <<>> THEN s ELSE AppendElems(AppendElem(s, Head(vs)), Tail(vs))

RECURSIVE DecodePacked(_, _, _)
DecodePackedNext(d, p, acc, r) ==
  IF r.err # "" THEN Rd(r.err, acc, p) ELSE DecodePacked(d, r.p, Append(acc, r.v))

\* The varints of a packed run
DecodePacked(d, p, acc) ==
  IF p > Len(d) THEN Rd("", acc, p) ELSE DecodePackedNext(d, p, acc, DecodeVarint(d, p, 0, 0))

\* The decoder of a message whose fields are all varints, as Child and the
\* entry of the map are: vals[n] is the value of field n, for n in 1 .. Len(vals);
\* any other field is skipped.  [err, vals]
RECURSIVE ScalarsUnmarshal(_, _, _)
ScalarsField(d, vals, num, known, r) ==
  IF r.err # "" THEN [err |-> r.err, vals |-> vals]
  ELSE ScalarsUnmarshal(d, r.p, IF known THEN [vals EXCEPT ![num] = r.v] ELSE vals)

ScalarsTag(d, p, vals, t) ==
  IF t.err # "" THEN [err |-> t.err, vals |-> vals]
  ELSE IF t.v % 8 = 4 \/ t.v \div 8 <= 0 THEN [err |-> ErrIllegalTag, vals |-> vals]
  ELSE IF t.v \div 8 <= Len(vals) /\ t.v % 8 = 0
    THEN ScalarsField(d, vals, t.v \div 8, TRUE, DecodeVarint(d, t.p, 0, 0))
    ELSE ScalarsField(d, vals, 0, FALSE, Skip(d, p, 0))

ScalarsUnmarshal(d, p, vals) ==
  IF p > Len(d) THEN [err |-> "", vals |-> vals] ELSE ScalarsTag(d, p, vals, DecodeVarint(d, p, 0, 0))

ChildOf(r) == [err |-> r.err, c |-> [Id |-> r.vals[1]]]

\* (m *Child) UnmarshalVT(d) into the Child c: [err, c]
ChildUnmarshalVT(d, c) == ChildOf(ScalarsUnmarshal(d, 1, <<c.Id>>))

EntryOf(r) == [err |-> r.err, kv |-> r.vals]

\* The key and the value of a map entry, each 0 unless the entry gives it
EntryUnmarshal(d) == EntryOf(ScalarsUnmarshal(d, 1, <<0, 0>>))

\* A put that keeps the value a key already has.
MapPutKeepsFirst(tags, kv) ==
  IF \E e \in tags : e[1] = kv[1] THEN tags ELSE tags \cup {kv}

\* m.Tags[k] = v
MapPut(tags, kv) == {e \in tags : e[1] # kv[1]} \cup {kv}

\* What a decode works on: the target, the Child instances, the error so far.
DecEnv(m, ks) == [m |-> m, kids |-> ks, err |-> ""]

Fail(e, err) == [e EXCEPT !.err = err]

\* GeneratedFile.Alloc for the pool-eligible Child, v := ChildFromVTPool(): a
\* zero-valued Child whichever instance Get returns, here the one New makes.
Alloc(e) == [e EXCEPT !.kids = Append(e.kids, ZeroChild)]

\* The Child a nested-message field decodes into: the one the field holds,
\* a new one when it holds none or is repeated
ChildBase(num, e) ==
  IF num = Number("Child") /\ e.m.Child # 0 THEN e.kids[e.m.Child]
  ELSE IF num = Number("Sub") /\ e.m.Choice.tag = "Sub" THEN e.kids[e.m.Choice.sub]
  ELSE ZeroChild

\* The case of the tag switch for field num with wire type wt: [e, p].  x is
\* the varint and b the length-delimited span at the payload, a the target
\* with a Child allocated, c, kv and vs the span decoded as a Child, as a map
\* entry and as a packed run, s the field skipped.  A number or a wire type
\* the message does not know is skipped.
DecodeFieldWith(num, wt, e, x, b, a, c, kv, vs, s) ==
  LET m == e.m
      new == Len(a.kids)
      Ok(mm, q) == [e |-> [e EXCEPT !.m = mm], p |-> q]
      Bad(err) == [e |-> Fail(e, err), p |-> 0]
  IN CASE num \in {Number("Num"), Number("Opt"), Number("Items"), Number("Flag")} /\ wt = 0 /\ x.err # "" ->
            Bad(x.err)
       [] num \in {Number("Data"), Number("OptData"), Number("Items"), Number("Blobs"), Number("Kids"),
                   Number("Tags"), Number("Child"), Number("Name"), Number("Raw"), Number("Sub")}
          /\ wt = 2 /\ b.err # "" -> Bad(b.err)
       [] num \in {Number("Kids"), Number("Child"), Number("Sub")} /\ wt = 2 /\ c.err # "" -> Bad(c.err)
       [] num = Number("Tags") /\ wt = 2 /\ kv.err # "" -> Bad(kv.err)
       [] num = Number("Items") /\ wt = 2 /\ vs.err # "" -> Bad(vs.err)
       [] num = Number("Name") /\ wt = 2 /\ ~ValidateUTF8(b.v) -> Bad(ErrInvalidUTF8)
       [] num = Number("Num") /\ wt = 0 -> Ok([m EXCEPT !.Num = x.v], x.p)
       [] num = Number("Opt") /\ wt = 0 -> Ok([m EXCEPT !.Opt = <<x.v>>], x.p)
       [] num = Number("Data") /\ wt = 2 -> Ok([m EXCEPT !.Data = SetBytes(m.Data, b.v)], b.p)
       [] num = Number("OptData") /\ wt = 2 -> Ok([m EXCEPT !.OptData = SetBytes(m.OptData, b.v)], b.p)
       [] num = Number("Items") /\ wt = 0 -> Ok([m EXCEPT !.Items = AppendElem(m.Items, x.v)], x.p)
       [] num = Number("Items") /\ wt = 2 -> Ok([m EXCEPT !.Items = AppendElems(m.Items, vs.v)], b.p)
       [] num = Number("Blobs") /\ wt = 2 -> Ok([m EXCEPT !.Blobs = AppendElem(m.Blobs, b.v)], b.p)
       [] num = Number("Kids") /\ wt = 2 ->
            [e |-> [a EXCEPT !.kids[new] = c.c, !.m.Kids = AppendElem(m.Kids, new)], p |-> b.p]
       [] num = Number("Tags") /\ wt = 2 -> Ok([m EXCEPT !.Tags = MapPut(m.Tags, kv.kv)], b.p)
       [] num = Number("Child") /\ wt = 2 ->
            IF m.Child # 0
              THEN [e |-> [e EXCEPT !.kids[m.Child] = c.c], p |-> b.p]
              ELSE [e |-> [a EXCEPT !.kids[new] = c.c, !.m.Child = new], p |-> b.p]
       [] num = Number("Name") /\ wt = 2 -> Ok([m EXCEPT !.Name = b.v], b.p)
       [] num = Number("Raw") /\ wt = 2 ->
            IF m.Choice.tag = "Raw"
              THEN Ok([m EXCEPT !.Choice.raw = SetBytes(m.Choice.raw, b.v)], b.p)
              ELSE Ok([m EXCEPT !.Choice = [NilOneof EXCEPT !.tag = "Raw", !.box = Fresh(m.Choice.box),
                                                          !.raw = SetBytes(NilSlice, b.v)]], b.p)
       [] num = Number("Sub") /\ wt = 2 ->
            IF m.Choice.tag = "Sub"
              THEN [e |-> [e EXCEPT !.kids[m.Choice.sub] = c.c], p |-> b.p]
              ELSE [e |-> [a EXCEPT !.kids[new] = c.c,
                                    !.m.Choice = [NilOneof EXCEPT !.tag = "Sub",
                                                    !.box = Fresh(m.Choice.box), !.sub = new]],
                    p |-> b.p]
       [] num = Number("Flag") /\ wt = 0 ->
            Ok([m EXCEPT !.Choice = [NilOneof EXCEPT !.tag = "Flag", !.box = Fresh(m.Choice.box),
                                                    !.flag = x.v]], x.p)
       [] OTHER -> IF s.err # "" THEN Bad(s.err) ELSE [e |-> e, p |-> s.p]

DecodeSpan(num, wt, d, pre, e, x, b) ==
  DecodeFieldWith(num, wt, e, x, b, Alloc(e), ChildUnmarshalVT(b.v, ChildBase(num, e)),
                  EntryUnmarshal(b.v), DecodePacked(b.v, 1, <<>>), Skip(d, pre, 0))

\* The field with number num and wire type wt, its payload at p, its tag at pre
DecodeField(num, wt, d, p, pre, e) ==
  DecodeSpan(num, wt, d, pre, e, DecodeVarint(d, p, 0, 0), ReadBytes(d, p))

RECURSIVE UnmarshalVT(_, _, _)
UnmarshalNext(d, r) == IF r.e.err # "" THEN r.e ELSE UnmarshalVT(d, r.p, r.e)

UnmarshalTag(d, p, e, t) ==
  IF t.err # "" THEN Fail(e, t.err)
  ELSE IF t.v % 8 = 4 \/ t.v \div 8 <= 0 THEN Fail(e, ErrIllegalTag)
  ELSE UnmarshalNext(d, DecodeField(t.v \div 8, t.v % 8, d, t.p, p, e))

\* (m *Msg) UnmarshalVT(dAtA) from position p: tag by tag to the end of the
\* input, stopping at the first error
UnmarshalVT(d, p, e) ==
  IF p > Len(d) THEN e ELSE UnmarshalTag(d, p, e, DecodeVarint(d, p, 0, 0))

(***************************************************************************)
(* The generic encoder and decoder: they walk the field descriptors of the *)
(* message and read or build its logical content by field name.            *)
(***************************************************************************)
ProtoFieldBytes(f, v, ord) ==
  CASE f.map ->
         Concat([k \in 1 .. Len(ord) |->
                   LenDelim(f.num, VarintField(1, ord[k][1]) \o VarintField(2, ord[k][2]))])
    [] f.list /\ f.kind = "scalar" ->
         IF v = <<>> THEN <<>> ELSE LenDelim(f.num, Concat([k \in 1 .. Len(v) |-> EncodeVarint(v[k])]))
    [] f.list /\ f.kind = "bytes" -> Concat([k \in 1 .. Len(v) |-> LenDelim(f.num, v[k])])
    [] f.list /\ f.kind = "msg" -> Concat([k \in 1 .. Len(v) |-> LenDelim(f.num, ChildBytes(v[k]))])
    [] ~f.list /\ ~f.map /\ f.kind = "msg" -> IF v = <<>> THEN <<>> ELSE LenDelim(f.num, ChildBytes(v[1]))
    [] ~f.list /\ ~f.map /\ f.oneof # "" /\ f.kind = "scalar" ->
         IF v = <<>> THEN <<>> ELSE VarintField(f.num, v[1])
    [] ~f.list /\ ~f.map /\ f.oneof # "" /\ f.kind = "bytes" ->
         IF v = <<>> THEN <<>> ELSE LenDelim(f.num, v[1])
    [] ~f.list /\ ~f.map /\ f.oneof = "" /\ f.kind = "scalar" ->
         IF v = 0 THEN <<>> ELSE VarintField(f.num, v)
    [] OTHER -> IF v = <<>> THEN <<>> ELSE LenDelim(f.num, v)

\* proto.Marshal: the fields in the order of their numbers
ProtoMarshal(view, ord) ==
  Concat([k \in 1 .. Len(MsgFields) |-> ProtoFieldBytes(MsgFields[k], view[MsgFields[k].name], ord)])

\* The descriptor with wire number num, <<>> when the message has none
ByNumber(num) ==
  LET ks == {k \in 1 .. Len(MsgFields) : MsgFields[k].num = num}
  IN IF ks = {} THEN <<>> ELSE <<MsgFields[CHOOSE k \in ks : TRUE]>>

\* Setting a member of a oneof clears the others.
ClearOneof(view, f) ==
  IF IsRealOneof(f)
    THEN [n \in DOMAIN view |->
            IF \E k \in 1 .. Len(MsgFields) : MsgFields[k].name = n /\ MsgFields[k].oneof = f.oneof
              THEN <<>> ELSE view[n]]
    ELSE view

ProtoDecodeWith(f, wt, r, x, b, child, entry, run, s) ==
  LET old == r.view[f.name]
      Ok(v, q) == [view |-> [ClearOneof(r.view, f) EXCEPT ![f.name] = v], err |-> "", p |-> q]
      Bad(err) == [r EXCEPT !.err = err]
  IN CASE f.kind = "scalar" /\ wt = 0 ->
            IF x.err # "" THEN Bad(x.err)
            ELSE Ok(IF f.list THEN Append(old, x.v) ELSE IF f.oneof # "" THEN <<x.v>> ELSE x.v, x.p)
       [] f.kind = "scalar" /\ f.list /\ wt = 2 ->
            IF b.err # "" THEN Bad(b.err)
            ELSE IF run.err # "" THEN Bad(run.err) ELSE Ok(old \o run.v, b.p)
       [] f.kind = "bytes" /\ wt = 2 ->
            IF b.err # "" THEN Bad(b.err)
            ELSE Ok(IF f.list THEN Append(old, b.v) ELSE IF f.oneof # "" THEN <<b.v>> ELSE b.v, b.p)
       [] f.kind = "string" /\ wt = 2 ->
            IF b.err # "" THEN Bad(b.err)
            ELSE IF ~ValidateUTF8(b.v) THEN Bad(ErrInvalidUTF8) ELSE Ok(b.v, b.p)
       [] f.kind = "msg" /\ f.map /\ wt = 2 ->
            IF b.err # "" THEN Bad(b.err)
            ELSE IF entry.err # "" THEN Bad(entry.err) ELSE Ok(MapPut(old, entry.kv), b.p)
       [] f.kind = "msg" /\ ~f.map /\ wt = 2 ->
            IF b.err # "" THEN Bad(b.err)
            ELSE IF child.err # "" THEN Bad(child.err)
            ELSE Ok(IF f.list THEN Append(old, child.c) ELSE <<child.c>>, b.p)
       [] OTHER -> IF s.err # "" THEN Bad(s.err) ELSE [r EXCEPT !.p = s.p]

ProtoDecodeSpan(f, wt, d, pre, r, x, b) ==
  ProtoDecodeWith(f, wt, r, x, b,
                  ChildUnmarshalVT(b.v, IF f.list \/ f.kind # "msg" \/ f.map \/ r.view[f.name] = <<>>
                                          THEN ZeroChild ELSE r.view[f.name][1]),
                  EntryUnmarshal(b.v), DecodePacked(b.v, 1, <<>>), Skip(d, pre, 0))

ProtoDecodeField(f, wt, d, p, pre, r) ==
  ProtoDecodeSpan(f, wt, d, pre, r, DecodeVarint(d, p, 0, 0), ReadBytes(d, p))

ProtoSkip(r, s) == IF s.err # "" THEN [r EXCEPT !.err = s.err] ELSE [r EXCEPT !.p = s.p]

RECURSIVE ProtoUnmarshal(_, _)
ProtoNext(d, n) == IF n.err # "" THEN n ELSE ProtoUnmarshal(d, n)

ProtoTag(d, r, t, f) ==
  IF t.err # "" THEN [r EXCEPT !.err = t.err]
  ELSE IF t.v % 8 = 4 \/ t.v \div 8 <= 0 THEN [r EXCEPT !.err = ErrIllegalTag]
  ELSE IF f # <<>> THEN ProtoNext(d, ProtoDecodeField(f[1], t.v % 8, d, t.p, r.p, r))
  ELSE ProtoNext(d, ProtoSkip(r, Skip(d, r.p, 0)))

ProtoField(d, r, t) == ProtoTag(d, r, t, IF t.err # "" THEN <<>> ELSE ByNumber(t.v \div 8))

\* proto.Unmarshal into an empty message, from position r.p: [view, err, p]
ProtoUnmarshal(d, r) ==
  IF r.p > Len(d) THEN r ELSE ProtoField(d, r, DecodeVarint(d, r.p, 0, 0))

(***************************************************************************)
(* A caller that builds a message, encodes it with MarshalVT and with the  *)
(* generic encoder, and decodes a stream into a new message; or that       *)
(* decodes a stream that came from elsewhere.                              *)
(***************************************************************************)
NoSent ==
  [by |-> "", m |-> ZeroMsg, ks |-> <<>>, ord |-> <<>>, size |-> 0, i |-> 0, panic |-> FALSE,
   data |-> <<>>, pre |-> <<>>, text |-> <<>>, valid |-> TRUE, cut |-> FALSE, post |-> <<>>]

NoGoog == [by |-> "", ord |-> <<>>, data |-> <<>>]

NoRcvd == [by |-> "", from |-> "", err |-> "", view |-> EmptyView]

\* a := &Msg{}; b := &Msg{}, both the caller's
InitWire ==
  /\ GenIdle
  /\ msgs = [i \in MsgIds |-> ZeroMsg]
  /\ kids = [c \in KidIds |-> ZeroChild]
  /\ nMsg = 2
  /\ nKid = 0
  /\ pool = [i \in MsgIds |-> 0]
  /\ kpool = [c \in KidIds |-> 0]
  /\ held = [t \in Threads |-> IF t = 1 THEN {1, 2} ELSE {}]
  /\ heldK = [t \in Threads |-> {}]
  /\ pc = [t \in Threads |-> "idle"]
  /\ cur = [t \in Threads |-> 0]
  /\ writes = 0
  /\ snap = [i \in MsgIds |-> ZeroMsg]
  /\ acq = [i \in MsgIds |-> ZeroMsg]
  /\ phase = "build"
  /\ sent = NoSent
  /\ goog = NoGoog
  /\ rcvd = NoRcvd

\* The values the tests give the fields: a varint of one byte and of two,
\* a present zero, text of one byte and of two, a map of one entry and of two.
WireValuesOf(f) ==
  CASE f = "Num" -> {1, 300}
    [] f = "Opt" -> {<<0>>, <<1>>}
    [] f = "Name" -> {<<97>>, <<195, 169>>}
    [] f = "Tags" -> {{<<1, 1>>}, {<<1, 0>>, <<2, 300>>}}

WireWriteValue(t, i, f) ==
  /\ Holds(t, i)
  /\ \E v \in WireValuesOf(f) : msgs' = [msgs EXCEPT ![i][f] = v]
  /\ UNCHANGED <<kids, nMsg, nKid, pool, kpool, held, heldK, pc, cur, snap, acq>>

WireWrite(t, i) ==
  /\ phase = "build"
  /\ writes < MaxWrites
  /\ writes' = writes + 1
  /\ \/ \E f \in {"Num", "Opt", "Name", "Tags"} : WireWriteValue(t, i, f)
     \/ \E f \in SliceFields : WriteSlice(t, i, f)
     \/ WriteKid(t, i)
     \/ WriteChild(t, i)
     \/ WriteRaw(t, i)
     \/ WriteSub(t, i)
     \/ WriteFlag(t, i)
  /\ UNCHANGED wireVars

\* data, err := m.MarshalVT()
DoMarshalVT(t, i) ==
  /\ phase = "build"
  /\ Holds(t, i)
  /\ \E ord \in MapOrders(msgs[i].Tags) :
     \E r \in {MarshalVT(msgs[i], kids, ord)} :
          sent' = [NoSent EXCEPT !.by = "MarshalVT", !.m = r.m, !.ks = r.ks, !.ord = ord,
                                 !.size = r.size, !.i = r.i, !.panic = r.panic, !.data = r.data]
  /\ phase' = "sent"
  /\ UNCHANGED <<poolVars, goog, rcvd>>

\* goog, err := proto.Marshal(m), of the message MarshalVT was called on
DoProtoMarshal ==
  /\ phase = "sent"
  /\ sent.by = "MarshalVT"
  /\ goog.by = ""
  /\ \E ord \in MapOrders(sent.m.Tags) :
       goog' = [by |-> "proto.Marshal", ord |-> ord, data |-> ProtoMarshal(View(sent.m, sent.ks), ord)]
  /\ UNCHANGED <<poolVars, phase, sent, rcvd>>

\* The streams at hand: what MarshalVT returned, what proto.Marshal returned
Streams ==
  {[from |-> sent.by, data |-> sent.data]}
  \cup (IF goog.by = "" THEN {} ELSE {[from |-> goog.by, data |-> goog.data]})

\* decoded := &Msg{}; err := decoded.UnmarshalVT(data)
DoUnmarshalVT ==
  /\ phase = "sent"
  /\ \E s \in Streams :
     \E e \in {UnmarshalVT(s.data, 1, DecEnv(ZeroMsg, <<>>))} :
          rcvd' = [by |-> "UnmarshalVT", from |-> s.from, err |-> e.err, view |-> View(e.m, e.kids)]
  /\ phase' = "done"
  /\ UNCHANGED <<poolVars, sent, goog>>

\* decoded := &Msg{}; err := proto.Unmarshal(data, decoded)
DoProtoUnmarshal ==
  /\ phase = "sent"
  /\ \E s \in Streams :
     \E r \in {ProtoUnmarshal(s.data, [view |-> EmptyView, err |-> "", p |-> 1])} :
          rcvd' = [by |-> "proto.Unmarshal", from |-> s.from, err |-> r.err, view |-> r.view]
  /\ phase' = "done"
  /\ UNCHANGED <<poolVars, sent, goog>>

\* Payloads for the text field, each with whether it is well-formed UTF-8
Texts ==
  {[bytes |-> <<97, 98, 99, 100>>, valid |-> TRUE],
   [bytes |-> <<255, 254, 253, 252>>, valid |-> FALSE],
   [bytes |-> <<195, 169>>, valid |-> TRUE],
   [bytes |-> <<195, 40>>, valid |-> FALSE],
   [bytes |-> <<226, 130, 172>>, valid |-> TRUE],
   [bytes |-> <<240, 159, 152, 128>>, valid |-> TRUE],
   [bytes |-> <<192, 128>>, valid |-> FALSE],
   [bytes |-> <<237, 160, 128>>, valid |-> FALSE],
   [bytes |-> <<244, 144, 128, 128>>, valid |-> FALSE],
   [bytes |-> <<97, 128>>, valid |-> FALSE],
   [bytes |-> <<226, 130>>, valid |-> FALSE]}

\* Fields that come before and after the text field in a stream: none, Num = 1
Befores == {<<>>, VarintField(Number("Num"), 1)}

\* none, Opt = 1, Num = 2
Afters == {<<>>, VarintField(Number("Opt"), 1), VarintField(Number("Num"), 2)}

\* A stream from elsewhere: fields, the text field with its payload whole or
\* with a declared length one more than the bytes that follow, fields
Receive ==
  /\ phase = "build"
  /\ writes = 0
  /\ \E pre \in Befores, text \in Texts, post \in Afters, cut \in BOOLEAN :
       /\ cut => post = <<>>
       /\ sent' = [NoSent EXCEPT
                     !.by = "wire", !.pre = pre, !.text = text.bytes, !.valid = text.valid,
                     !.cut = cut, !.post = post,
                     !.data = pre \o Tag(Number("Name"), WireBytes)
                                  \o EncodeVarint(Len(text.bytes) + (IF cut THEN 1 ELSE 0))
                                  \o text.bytes \o post]
  /\ phase' = "sent"
  /\ UNCHANGED <<poolVars, goog, rcvd>>

NextWire ==
  \/ WireWrite(1, 1)
  \/ DoMarshalVT(1, 1)
  \/ DoProtoMarshal
  \/ DoUnmarshalVT
  \/ DoProtoUnmarshal
  \/ Receive

SpecWire == InitWire /\ [][NextWire]_vars

(***************************************************************************)
(* The transport codecs, on two messages a (instance 1) and b (instance 2) *)
(* of the pool-eligible type Msg: data := Marshal(b); Unmarshal(data, a).   *)
(***************************************************************************)
\* if r, ok := v.(vtprotoResetter); ok { r.ResetVT() }
\* else if r, ok := v.(protoResetter); ok { r.Reset() }
CodecReset(ty, m, ks, kp) ==
  IF EmitsPool(Config, MsgTypes[ty])
    THEN ResetVT(Env(ty, m, ks, kp))
    ELSE [Env(ty, m, ks, kp) EXCEPT !.m = ZeroOf(ty)]

\* Codec.Marshal(v) / drpc Marshal(msg): return vt.MarshalVT()
CodecMarshal(t, i) ==
  /\ phase = "build"
  /\ Holds(t, i)
  /\ \E ord \in MapOrders(msgs[i].Tags) :
     \E r \in {MarshalVT(msgs[i], kids, ord)} :
          sent' = [NoSent EXCEPT !.by = "Marshal", !.m = r.m, !.ks = r.ks, !.ord = ord,
                                 !.size = r.size, !.i = r.i, !.panic = r.panic, !.data = r.data]
  /\ phase' = "sent"
  /\ UNCHANGED <<poolVars, goog, rcvd>>

\* The reset, then return vt.UnmarshalVT(data)
CodecUnmarshal(name, t, i) ==
  /\ phase = "sent"
  /\ Holds(t, i)
  /\ \E r \in {CodecReset("Msg", msgs[i], kids, kpool)} :
     \E e \in {UnmarshalVT(sent.data, 1, DecEnv(r.m, r.kids))} :
       /\ msgs' = [msgs EXCEPT ![i] = e.m]
       /\ kids' = e.kids
       /\ kpool' = [c \in 1 .. Len(e.kids) |-> IF c <= Len(r.kpool) THEN r.kpool[c] ELSE 0]
       /\ nKid' = IF Len(e.kids) > Len(kids) THEN Len(e.kids) ELSE nKid
       /\ heldK' = [heldK EXCEPT ![t] = (@ \ {c \in DOMAIN r.kpool : r.kpool[c] > kpool[c]}) \cup Reach(e.m)]
       /\ rcvd' = [by |-> name, from |-> sent.by, err |-> e.err, view |-> View(e.m, e.kids)]
  /\ phase' = "done"
  /\ UNCHANGED <<nMsg, pool, held, pc, cur, writes, snap, acq, sent, goog, genVars>>

\* func (Codec) Unmarshal(data []byte, v interface{}) error
GrpcUnmarshal(t, i) == CodecUnmarshal("grpc.Unmarshal", t, i)

\* func Unmarshal(buf []byte, msg interface{}) error
DrpcUnmarshal(t, i) == CodecUnmarshal("drpc.Unmarshal", t, i)

NextCodec ==
  \/ \E i \in {1, 2} : WireWrite(1, i)
  \/ CodecMarshal(1, 2)
  \/ GrpcUnmarshal(1, 1)
  \/ DrpcUnmarshal(1, 1)

SpecCodec == InitWire /\ [][NextCodec]_vars

(***************************************************************************)
(* What a caller can read of an instance.                                  *)
(***************************************************************************)
ListFields == {MsgFields[k].name : k \in {j \in 1 .. Len(MsgFields) : MsgFields[j].list}}

\* Every field reads as absent, zero or empty: a nil and an empty slice read the
\* same unless the field has explicit presence, where non-nil is present.
LogicallyEmpty(m) ==
  /\ m.Num = 0
  /\ m.Opt = <<>>
  /\ m.Name = <<>>
  /\ m.Tags = {}
  /\ m.Child = 0
  /\ m.Data.len = 0
  /\ m.OptData.arr = 0
  /\ \A f \in ListFields : m[f].len = 0
  /\ m.Choice.box = 0

Holders(i) == {t \in Threads : i \in held[t]}

KidHolders(c) == {t \in Threads : c \in heldK[t]}

\* ResetVT has run on instance i and nothing has touched it since.
JustReset(i) == pool[i] > 0 \/ \E t \in Threads : pc[t] = "put" /\ cur[t] = i

\* Instance i is in a caller's hands, out of any ReturnToVTPool.
InHand(i) == \E t \in Threads : i \in held[t] /\ pc[t] = "idle"

(***************************************************************************)
(* C1: under any interleaving of FromVTPool and ReturnToVTPool by several  *)
(* threads that keep the ownership contract, every allocated Msg instance  *)
(* is held by exactly one thread or is once in the pool, never both and    *)
(* never twice; no Child instance is held by two threads, or held and in   *)
(* its pool, or in its pool twice.                                         *)
(***************************************************************************)
C1_NoSharedInstance ==
  /\ \A i \in MsgIds :
       Cardinality(Holders(i)) + pool[i] = (IF i <= nMsg THEN 1 ELSE 0)
  /\ \A c \in KidIds : Cardinality(KidHolders(c)) + kpool[c] <= 1

\* Two threads have each acquired, one of them an instance another thread
\* returned, while an instance is in the pool.
C1_Witness ==
  /\ \E i \in MsgIds : held[2] = {i} /\ snap[i].Num = 1
  /\ \E i \in MsgIds : pool[i] = 1
  /\ \E c \in KidIds : kpool[c] = 1

(***************************************************************************)
(* C2: right after FromVTPool returns an instance, fresh or recycled,      *)
(* every field of it reads as absent, zero or empty.                       *)
(***************************************************************************)
C2_AcquiredReadsEmpty == \A i \in MsgIds : LogicallyEmpty(acq[i])

(***************************************************************************)
(* C3: for two messages a and b of the pool-eligible type, after           *)
(* data := Marshal(b) and Unmarshal(data, a) of either codec, Unmarshal    *)
(* has returned no error and a reads as b does: nothing of what a held     *)
(* before is left.                                                         *)
(***************************************************************************)
C3_UnmarshalReplaces ==
  rcvd.by \in {"grpc.Unmarshal", "drpc.Unmarshal"} =>
    rcvd.err = "" /\ rcvd.view = View(sent.m, sent.ks)

(***************************************************************************)
(* C4: a repeated field that had length n and capacity c when              *)
(* ReturnToVTPool was called reads, when FromVTPool hands the instance out *)
(* again, as length 0 with capacity c on the same backing array, and can   *)
(* be refilled to any length up to c on that array.                        *)
(***************************************************************************)
C4_ListCapacityPreserved ==
  \A i \in MsgIds : InHand(i) =>
    \A f \in ListFields :
      /\ acq[i][f].len = 0
      /\ acq[i][f].arr = snap[i][f].arr
      /\ Cap(acq[i][f]) = Cap(snap[i][f])
      /\ \A n \in 1 .. Cap(snap[i][f]) :
           \E v \in SliceAssign(acq[i][f], Fresh(acq[i][f].arr), ElemOf(f), ZeroElemOf(f)) :
             v.len = n /\ v.arr = snap[i][f].arr

\* An instance returned with 1 of MaxCap slots in use is in hand again,
\* refilled to MaxCap elements on the array it was returned with.
C4_Witness ==
  \E i \in MsgIds :
    /\ InHand(i)
    /\ snap[i].Items.len = 1 /\ Cap(snap[i].Items) = MaxCap
    /\ acq[i].Items.len = 0
    /\ msgs[i].Items.len = MaxCap /\ msgs[i].Items.arr = snap[i].Items.arr

(***************************************************************************)
(* C5: after ResetVT on an instance whose oneof held the bytes variant,    *)
(* the slot holds the very same wrapper with its bytes cut to length 0 on  *)
(* the same array and capacity; with another variant, or none, nothing is  *)
(* kept and the oneof is unset.                                            *)
(***************************************************************************)
C5_OneofBytesWrapperKept ==
  \A i \in MsgIds : JustReset(i) =>
    IF snap[i].Choice.tag = "Raw"
      THEN /\ msgs[i].Choice.tag = "Raw"
           /\ msgs[i].Choice.box = snap[i].Choice.box
           /\ msgs[i].Choice.raw.len = 0
           /\ msgs[i].Choice.raw.arr = snap[i].Choice.raw.arr
           /\ Cap(msgs[i].Choice.raw) = Cap(snap[i].Choice.raw)
      ELSE msgs[i].Choice = NilOneof

\* ResetVT has run on an instance whose oneof held 1 byte of MaxCap.
C5_Witness ==
  \E i \in MsgIds :
    /\ JustReset(i)
    /\ snap[i].Choice.tag = "Raw"
    /\ snap[i].Choice.raw.len = 1 /\ Cap(snap[i].Choice.raw) = MaxCap

\* The numbers of the fields of a stream, in the order they come
RECURSIVE FieldNumbers(_, _)
FieldNumbersAfter(d, p, t, s) ==
  IF t.err # "" \/ s.err # "" THEN {} ELSE {t.v \div 8} \cup FieldNumbers(d, s.p)

FieldNumbers(d, p) ==
  IF p > Len(d) THEN {} ELSE FieldNumbersAfter(d, p, DecodeVarint(d, p, 0, 0), Skip(d, p, 0))

\* MarshalVT has returned and UnmarshalVT has decoded what it returned.
RoundTripped == rcvd.by = "UnmarshalVT" /\ rcvd.from = "MarshalVT"

(***************************************************************************)
(* C6: decoding what MarshalVT returned for a message into a new empty     *)
(* message returns no error and gives a message that reads as the one      *)
(* encoded does, field by field, nested messages included.                 *)
(***************************************************************************)
C6_RoundTrip ==
  RoundTripped => rcvd.err = "" /\ rcvd.view = View(sent.m, sent.ks)

\* A message with a map of two entries, one a varint of two bytes, and a
\* nested message in its oneof has made the round trip.
C6_Witness ==
  /\ RoundTripped
  /\ Cardinality(sent.m.Tags) = 2
  /\ sent.m.Choice.tag = "Sub"
  /\ rcvd.view.Sub = <<[Id |-> 1]>>

(***************************************************************************)
(* C7: the size SizeVT computes is the number of bytes MarshalVT returns,  *)
(* and the fill of the buffer of that size from the tail backward ends at  *)
(* offset 0 without running off its front.                                 *)
(***************************************************************************)
C7_SizeExact ==
  sent.by = "MarshalVT" => ~sent.panic /\ sent.i = 0 /\ Len(sent.data) = sent.size

\* A message with a varint of two bytes and a nested message: 3 + 4 bytes.
C7_Witness ==
  /\ sent.by = "MarshalVT"
  /\ sent.m.Num = 300
  /\ sent.m.Child # 0
  /\ sent.size = 7
  /\ sent.data = <<8, 172, 2, 74, 2, 8, 1>>

(***************************************************************************)
(* C8: a singular field is in the stream, and counts in the size, exactly  *)
(* when it has no presence and is not zero or empty, or has presence and   *)
(* is present, whatever its value; and the scalar and the presence of the  *)
(* fields come back from the stream as they went in.                       *)
(***************************************************************************)
C8_OmissionRule ==
  /\ sent.by = "MarshalVT" =>
       LET m == sent.m
           nums == FieldNumbers(sent.data, 1)
           In(f) == Number(f) \in nums /\ FieldSizeVT(f, m, sent.ks) > 0
           Out(f) == Number(f) \notin nums /\ FieldSizeVT(f, m, sent.ks) = 0
       IN /\ IF m.Num # 0 THEN In("Num") ELSE Out("Num")
          /\ IF m.Opt # <<>> THEN In("Opt") ELSE Out("Opt")
          /\ IF m.Data.len > 0 THEN In("Data") ELSE Out("Data")
          /\ IF m.OptData.arr # 0 THEN In("OptData") ELSE Out("OptData")
          /\ IF Len(m.Name) > 0 THEN In("Name") ELSE Out("Name")
  /\ RoundTripped =>
       /\ rcvd.view.Num = sent.m.Num
       /\ rcvd.view.Opt = sent.m.Opt
       /\ (rcvd.view.OptData = <<>>) = (sent.m.OptData.arr = 0)

\* A present 0 and an implicit 0: the stream holds the one field, which
\* comes back as a present 0.
C8_Witness ==
  /\ RoundTripped
  /\ sent.m.Num = 0
  /\ sent.m.Opt = <<0>>
  /\ sent.data = <<16, 0>>
  /\ rcvd.view.Opt = <<0>>
  /\ rcvd.view.Num = 0

(***************************************************************************)
(* C9: the bytes of MarshalVT and of the generic encoder for one message   *)
(* are the same whenever the two visit the entries of the map in the same  *)
(* order; each decoder reads the other encoder's bytes back as the         *)
(* message; a bytes field without presence is left out by both, nil or     *)
(* empty.                                                                  *)
(***************************************************************************)
C9_CrossCompatible ==
  /\ (sent.by = "MarshalVT" /\ goog.by # "" /\ goog.ord = sent.ord) => sent.data = goog.data
  /\ (rcvd.by = "proto.Unmarshal" /\ rcvd.from = "MarshalVT")
       => rcvd.err = "" /\ rcvd.view = View(sent.m, sent.ks)
  /\ (rcvd.by = "UnmarshalVT" /\ rcvd.from = "proto.Marshal")
       => rcvd.err = "" /\ rcvd.view = View(sent.m, sent.ks)
  /\ (sent.by = "MarshalVT" /\ goog.by # "" /\ sent.m.Data.len = 0)
       => Number("Data") \notin FieldNumbers(sent.data, 1) \cup FieldNumbers(goog.data, 1)

\* Both encoders have encoded a message with a map of two entries, in the
\* same order, and the generated decoder has read the generic encoder's bytes.
C9_Witness ==
  /\ sent.by = "MarshalVT"
  /\ goog.by # ""
  /\ Cardinality(sent.m.Tags) = 2
  /\ goog.ord = sent.ord
  /\ sent.data = goog.data
  /\ rcvd.by = "UnmarshalVT"
  /\ rcvd.from = "proto.Marshal"

\* C9 as stated: for every message the bytes of the two encoders are the same.
C9_BytesIdentical ==
  (sent.by = "MarshalVT" /\ goog.by # "") => sent.data = goog.data

(***************************************************************************)
(* C10: decoding a stream whose text field has a payload that is not       *)
(* well-formed UTF-8 returns ErrInvalidUTF8, which is none of the          *)
(* malformed-input errors, and no field after it is decoded; a declared    *)
(* length beyond the input returns a malformed-input error; a well-formed  *)
(* payload is decoded to the text, and the fields after it too.            *)
(***************************************************************************)
C10_InvalidEncoding ==
  (rcvd.by = "UnmarshalVT" /\ rcvd.from = "wire") =>
    LET before == [EmptyView EXCEPT !.Num = IF sent.pre = <<>> THEN 0 ELSE 1]
    IN IF sent.cut THEN rcvd.err \in Malformed /\ rcvd.view = before
       ELSE IF ~sent.valid
         THEN /\ rcvd.err = ErrInvalidUTF8
              /\ ErrInvalidUTF8 \notin Malformed
              /\ rcvd.view = before
         ELSE /\ rcvd.err = ""
              /\ rcvd.view.Name = sent.text
              /\ sent.post = VarintField(Number("Opt"), 1) => rcvd.view.Opt = <<1>>
              /\ sent.post = VarintField(Number("Num"), 2) => rcvd.view.Num = 2

\* The stream of the test, between a field before it and a field after it.
C10_Witness ==
  /\ rcvd.by = "UnmarshalVT"
  /\ rcvd.from = "wire"
  /\ sent.data = <<8, 1, 114, 4, 255, 254, 253, 252, 16, 1>>
  /\ rcvd.err = ErrInvalidUTF8
  /\ rcvd.view.Num = 1
  /\ rcvd.view.Opt = <<>>

(***************************************************************************)
(* A caller that decodes one stream after another into the same message,   *)
(* with no reset in between.  A stream is one or two fields; sent.pieces   *)
(* is every field decoded so far, in order, and sent.n the number of       *)
(* streams.                                                                *)
(***************************************************************************)
Piece(f, v, bytes) == [f |-> f, v |-> v, bytes |-> bytes]

EntryBytes(kv) == LenDelim(Number("Tags"), VarintField(1, kv[1]) \o VarintField(2, kv[2]))

PackedBytes(vs) == Concat([k \in 1 .. Len(vs) |-> EncodeVarint(vs[k])])

\* Fields as they come on the wire: a singular scalar with two values, a
\* present zero, a repeated scalar unpacked and packed, map entries with a
\* key twice, two members of the oneof.
Pieces ==
  {Piece("Num", 1, VarintField(Number("Num"), 1)),
   Piece("Num", 2, VarintField(Number("Num"), 2)),
   Piece("Opt", 0, VarintField(Number("Opt"), 0)),
   Piece("Items", <<1>>, VarintField(Number("Items"), 1)),
   Piece("Items", <<2, 3>>, LenDelim(Number("Items"), PackedBytes(<<2, 3>>))),
   Piece("Tags", <<1, 1>>, EntryBytes(<<1, 1>>)),
   Piece("Tags", <<1, 2>>, EntryBytes(<<1, 2>>)),
   Piece("Tags", <<2, 1>>, EntryBytes(<<2, 1>>)),
   Piece("Raw", <<9>>, LenDelim(Number("Raw"), <<9>>)),
   Piece("Flag", 1, VarintField(Number("Flag"), 1))}

\* How many fields the caller decodes in all
MaxPieces == MaxWrites + 1

\* err := m.UnmarshalVT(data), m the message of the streams before
MergeDecode(t, i) ==
  /\ phase = "build"
  /\ Holds(t, i)
  /\ sent.by \in {"", "streams"}
  /\ \E old \in {IF sent.by = "" THEN [pieces |-> <<>>, n |-> 0] ELSE sent} :
     \E ps \in {<<a>> : a \in Pieces} \cup {<<a, b>> : a \in Pieces, b \in Pieces} :
       /\ Len(old.pieces) + Len(ps) <= MaxPieces
       /\ \E d \in {Concat([k \in 1 .. Len(ps) |-> ps[k].bytes])} :
          \E e \in {UnmarshalVT(d, 1, DecEnv(msgs[i], kids))} :
            /\ msgs' = [msgs EXCEPT ![i] = e.m]
            /\ sent' = [pieces |-> old.pieces \o ps, n |-> old.n + 1]
                         @@ [NoSent EXCEPT !.by = "streams", !.data = d]
            /\ rcvd' = [by |-> "UnmarshalVT", from |-> "streams", err |-> e.err,
                        view |-> View(e.m, e.kids)]
  /\ UNCHANGED <<kids, nMsg, nKid, pool, kpool, held, heldK, pc, cur, writes, snap, acq, phase, goog, genVars>>

NextMerge == MergeDecode(1, 1)

SpecMerge == InitWire /\ [][NextMerge]_vars

\* The fields of ps with a name in fs, in order
PiecesOf(ps, fs) == SelectSeq(ps, LAMBDA x : x.f \in fs)

\* What the rules give for the fields ps, whatever streams they came in: a
\* singular field its last occurrence, a repeated field every occurrence in
\* order, a map for each key the last entry with the key, a oneof the member
\* that came last.
MergedView(ps) ==
  LET num == PiecesOf(ps, {"Num"})
      opt == PiecesOf(ps, {"Opt"})
      its == PiecesOf(ps, {"Items"})
      tgs == PiecesOf(ps, {"Tags"})
      one == PiecesOf(ps, {"Raw", "Flag"})
      last == IF one = <<>> THEN Piece("", 0, <<>>) ELSE one[Len(one)]
  IN [EmptyView EXCEPT
        !.Num = IF num = <<>> THEN 0 ELSE num[Len(num)].v,
        !.Opt = IF opt = <<>> THEN <<>> ELSE <<opt[Len(opt)].v>>,
        !.Items = Concat([k \in 1 .. Len(its) |-> its[k].v]),
        !.Tags = {tgs[k].v : k \in {j \in 1 .. Len(tgs) :
                                      \A l \in (j + 1) .. Len(tgs) : tgs[l].v[1] # tgs[j].v[1]}},
        !.Raw = IF last.f = "Raw" THEN <<last.v>> ELSE <<>>,
        !.Flag = IF last.f = "Flag" THEN <<last.v>> ELSE <<>>]

Message(ident, mempool, mapEntry, opaque, fields, nested) ==
  [isNil |-> FALSE, ident |-> ident, mempool |-> mempool, mapEntry |-> mapEntry,
   opaque |-> opaque, fields |-> fields, nested |-> nested]

\* A message with two oneofs that each have bytes members
TwoOneofFields ==
  << FP("Id", 1, "scalar", FALSE, FALSE, "",       FALSE, FALSE, "None"),
     FP("P",  2, "bytes",  FALSE, FALSE, "First",  FALSE, TRUE,  "None"),
     FP("Q",  3, "bytes",  FALSE, FALSE, "Second", FALSE, TRUE,  "None"),
     FP("R",  4, "bytes",  FALSE, FALSE, "First",  FALSE, TRUE,  "None"),
     FP("B",  5, "bytes",  FALSE, FALSE, "",       FALSE, FALSE, "None") >>

Idents == {"A", "B"}

Configs == [Poolable : SUBSET Idents, PoolableExclude : SUBSET Idents]

Mempools == {"true", "false", "none"}

\* The files: message A with the fields of Msg or with two oneofs, message B
\* with the fields of Child, B beside A or nested in A
Files ==
  LET Bs == {Message("B", mp, me, op, ChildFields, <<>>) :
               mp \in Mempools, me \in BOOLEAN, op \in BOOLEAN}
      As(nested) == {Message("A", mp, me, op, fs, nested) :
                       mp \in Mempools, me \in BOOLEAN, op \in BOOLEAN,
                       fs \in {MsgFields, TwoOneofFields}}
  IN UNION {{<<a, b>> : a \in As(<<>>)} \cup {<<a>> : a \in As(<<b>>)} : b \in Bs}

\* The messages in the order pool.message gets past its loop over the nested
\* messages of each: for _, nested := range message.Messages { p.message(nested) }
RECURSIVE Visit(_)
Visit(ms) ==
  IF ms = <<>> THEN <<>>
  ELSE Visit(Head(ms).nested) \o <<Head(ms)>> \o Visit(Tail(ms))

\* The lines pool.message emits for a message past its early returns
PoolLines(c, message, saveOrder, restoreOrder) ==
  << Stmt("var vtprotoPool", message.ident, "", 0, <<>>, FALSE),
     Stmt("func ResetVT", message.ident, "", 0, <<>>, FALSE) >>
  \o GenResetVT(c, message.fields, saveOrder, restoreOrder)
  \o << Stmt("func ReturnToVTPool", message.ident, "", 0, <<>>, FALSE),
        Stmt("func FromVTPool", message.ident, "", 0, <<>>, FALSE) >>

\* p.message(message) past the loop over the nested messages, for the next
\* message to visit
GenMessage ==
  /\ gen.run \in {1, 2}
  /\ gen.todo # <<>>
  /\ LET message == Head(gen.todo)
     IN IF ~EmitsPool(gen.cfg, message)
          THEN gen' = [gen EXCEPT !.todo = Tail(@)]
          ELSE \E saveOrder \in GroupOrders(gen.cfg, message.fields),
                  restoreOrder \in GroupOrders(gen.cfg, message.fields) :
                 gen' = [gen EXCEPT !.todo = Tail(@),
                                    !.once = TRUE,
                                    !.out[gen.run] = @ \o PoolLines(gen.cfg, message, saveOrder, restoreOrder)]
  /\ UNCHANGED <<msgs, kids, nMsg, nKid, pool, kpool, held, heldK, pc, cur, writes, snap, acq,
                 phase, sent, goog, rcvd, call>>

\* GenerateFile: return p.once, every message visited; then the generator is
\* run on the file once more, from a new pool{}
GenerateFile ==
  /\ gen.run \in {1, 2}
  /\ gen.todo = <<>>
  /\ gen' = [gen EXCEPT !.ret = Append(@, gen.once),
                        !.run = @ + 1,
                        !.once = FALSE,
                        !.todo = IF gen.run = 1 THEN Visit(gen.file) ELSE <<>>]
  /\ UNCHANGED <<msgs, kids, nMsg, nKid, pool, kpool, held, heldK, pc, cur, writes, snap, acq,
                 phase, sent, goog, rcvd, call>>

\* The heap of a program that has not run yet
InitHeap ==
  /\ msgs = [i \in MsgIds |-> ZeroMsg]
  /\ kids = [c \in KidIds |-> ZeroChild]
  /\ nMsg = 0
  /\ nKid = 0
  /\ pool = [i \in MsgIds |-> 0]
  /\ kpool = [c \in KidIds |-> 0]
  /\ held = [t \in Threads |-> {}]
  /\ heldK = [t \in Threads |-> {}]
  /\ pc = [t \in Threads |-> "idle"]
  /\ cur = [t \in Threads |-> 0]
  /\ writes = 0
  /\ snap = [i \in MsgIds |-> ZeroMsg]
  /\ acq = [i \in MsgIds |-> ZeroMsg]
  /\ phase = "build"
  /\ sent = [by |-> ""]
  /\ goog = [by |-> ""]
  /\ rcvd = [by |-> ""]

InitGen ==
  /\ InitHeap
  /\ \E c \in Configs, f \in Files :
       gen = [cfg |-> c, file |-> f, run |-> 1, todo |-> Visit(f), once |-> FALSE,
              out |-> <<<<>>, <<>>>>, ret |-> <<>>]
  /\ call = NoCall

NextGen ==
  \/ GenMessage
  \/ GenerateFile

SpecGen == InitGen /\ [][NextGen]_vars

\* Both runs of the generator on the file have returned.
BothRunsDone == gen.run = 3

(***************************************************************************)
(* C12: two runs of the pool generator on the same file with the same      *)
(* configuration emit the same lines in the same order.                    *)
(***************************************************************************)
C12_SameOutput == BothRunsDone => gen.out[1] = gen.out[2]


(***************************************************************************)
(* C13 as stated: after ResetVT on an instance, every element its repeated *)
(* message field held is zero-valued and, its type being pool-eligible, is *)
(* in the pool of its type; the field has length 0 on the array and with   *)
(* the capacity it had.                                                    *)
(***************************************************************************)
C13_ListElementsReturned ==
  \A i \in MsgIds : JustReset(i) =>
    /\ msgs[i].Kids.len = 0
    /\ msgs[i].Kids.arr = snap[i].Kids.arr
    /\ Cap(msgs[i].Kids) = Cap(snap[i].Kids)
    /\ \A k \in 1 .. snap[i].Kids.len :
         /\ kids[snap[i].Kids.store[k]] = ZeroChild
         /\ ShouldPool(Config, MsgTypes.Child) => kpool[snap[i].Kids.store[k]] > 0

(***************************************************************************)
(* C13: after ResetVT on an instance, every element its repeated message   *)
(* field held has been reset where it is: it is zero-valued, it is still   *)
(* in the array of the field, and it is not in the pool of its type; the   *)
(* field has length 0 on the array and with the capacity it had.           *)
(***************************************************************************)
C13_ListElementsResetInPlace ==
  \A i \in MsgIds : JustReset(i) =>
    /\ msgs[i].Kids.len = 0
    /\ msgs[i].Kids.arr = snap[i].Kids.arr
    /\ Cap(msgs[i].Kids) = Cap(snap[i].Kids)
    /\ \A k \in 1 .. snap[i].Kids.len :
         /\ kids[snap[i].Kids.store[k]] = ZeroChild
         /\ msgs[i].Kids.store[k] = snap[i].Kids.store[k]
         /\ kpool[snap[i].Kids.store[k]] = 0

\* ResetVT has run on an instance whose repeated message field held an
\* element with a value in it.
C13_Witness ==
  \E t \in Threads :
    /\ pc[t] = "put"
    /\ snap[cur[t]].Kids.len = 1
    /\ snap[cur[t]].Kids.store[1] # 0
    /\ kids[snap[cur[t]].Kids.store[1]] = ZeroChild
    /\ msgs[cur[t]].Kids.len = 0


\* The instance holds no value a holder gave it: scalars zero, no text, no
\* entry, no nested message, every slice at length 0.
CarriesNoValue(m) ==
  /\ m.Num = 0
  /\ m.Opt = <<>>
  /\ m.Name = <<>>
  /\ m.Tags = {}
  /\ m.Child = 0
  /\ \A f \in SliceFields \cup {"Kids"} : m[f].len = 0
  /\ m.Choice.raw.len = 0
  /\ m.Choice.sub = 0
  /\ m.Choice.flag = 0

(***************************************************************************)
(* C14: in ReturnToVTPool the instance is put into the pool only after     *)
(* ResetVT has run on it: between the two steps it is reset and not yet in *)
(* the pool, every instance in the pool holds none of the values its       *)
(* holder gave it, and none is handed to a thread with such a value.       *)
(***************************************************************************)
C14_ResetBeforePut ==
  /\ \A t \in Threads : pc[t] = "put" =>
       /\ cur[t] \in held[t]
       /\ pool[cur[t]] = 0
       /\ CarriesNoValue(msgs[cur[t]])
  /\ \A i \in MsgIds : pool[i] > 0 => CarriesNoValue(msgs[i])
  /\ \A i \in MsgIds : CarriesNoValue(acq[i])

\* Thread 2 holds an instance that was returned with a value and a nested
\* message in it, while thread 1 is between the reset and the put of another.
C14_Witness ==
  \E i \in MsgIds, j \in MsgIds :
    /\ i # j
    /\ i \in held[2]
    /\ snap[i].Num = 1
    /\ snap[i].Child # 0
    /\ acq[i].Num = 0
    /\ pc[1] = "put" /\ cur[1] = j

\* The Child instances a Msg holds directly: in its singular field, and as
\* the active variant of its oneof.
DirectChildren(m) ==
  ({m.Child} \cup (IF m.Choice.tag = "Sub" THEN {m.Choice.sub} ELSE {})) \ {0}

\* A configuration under which Child is not pool-eligible.
ChildExcluded == [Poolable |-> {}, PoolableExclude |-> {"Child"}]

\* ResetVT of Msg as generated under configuration c, run on a Msg with content m.
ResetUnder(c, m) ==
  LET o == CHOOSE o \in GroupOrders(c, MsgFields) : TRUE
  IN ExecAll(GenResetVT(c, MsgFields, o, o), 1, Env("Msg", m, kids, kpool))

(***************************************************************************)
(* C15: ResetVT on an instance puts the Child of its singular field and    *)
(* the Child of its active oneof variant into the Child pool, once each    *)
(* and reset, and leaves both slots unset; with the field nil and another  *)
(* or no variant active the Child pool stays as it is; and with Child not  *)
(* pool-eligible the generated ResetVT puts nothing into the Child pool.   *)
(***************************************************************************)
C15_NestedReturned ==
  /\ \A t \in Threads, i \in MsgIds : Holds(t, i) =>
       /\ \E r \in {ResetVT(Env("Msg", msgs[i], kids, kpool))} :
            /\ \A c \in KidIds :
                 r.kpool[c] = kpool[c] + (IF c \in DirectChildren(msgs[i]) THEN 1 ELSE 0)
            /\ DirectChildren(r.m) = {}
            /\ r.m.Child = 0
            /\ r.m.Choice.tag # "Sub"
       /\ ~ShouldPool(ChildExcluded, MsgTypes.Child)
       /\ ResetUnder(ChildExcluded, msgs[i]).kpool = kpool
  /\ \A t \in Threads : pc[t] = "put" =>
       /\ DirectChildren(msgs[cur[t]]) = {}
       /\ \A c \in DirectChildren(snap[cur[t]]) : kpool[c] = 1 /\ kids[c] = ZeroChild

\* ResetVT has run on an instance that held a Child in its singular field
\* and another as the active variant of its oneof.
C15_Witness ==
  \E t \in Threads :
    /\ pc[t] = "put"
    /\ snap[cur[t]].Child # 0
    /\ snap[cur[t]].Choice.tag = "Sub"
    /\ snap[cur[t]].Choice.sub # snap[cur[t]].Child
    /\ kpool[snap[cur[t]].Child] = 1
    /\ kpool[snap[cur[t]].Choice.sub] = 1
    /\ msgs[cur[t]].Child = 0

\* The configurations that name the entry message of the map field or not.
MapConfigs == [Poolable : SUBSET {"TagsEntry"}, PoolableExclude : SUBSET {"TagsEntry"}]

MapFields == SelectSeq(MsgFields, LAMBDA f : f.map)

NoStmts == [stmts |-> <<>>, saved |-> <<>>, oneofBytes |-> <<>>]

\* The loop body emits nothing and saves nothing for a map field.
NothingForMaps ==
  \A c \in MapConfigs, k \in 1 .. Len(MapFields) : GenField(c, MapFields[k], NoStmts) = NoStmts

(***************************************************************************)
(* C16: the generator emits no statement and saves no handle for a map     *)
(* field, whether ShouldPool accepts the field's message or not, so the    *)
(* map is neither reset entry by entry, nor returned, nor kept; after      *)
(* ResetVT the map of the instance is empty, with no entry of what it      *)
(* held.                                                                   *)
(***************************************************************************)
C16_MapsDropped ==
  /\ MapFields # <<>>
  /\ NothingForMaps
  /\ \A i \in MsgIds : JustReset(i) => msgs[i].Tags = {}

\* ResetVT has run on an instance whose map held an entry.
C16_Witness ==
  \E t \in Threads :
    /\ pc[t] = "put"
    /\ snap[cur[t]].Tags # {}
    /\ msgs[cur[t]].Tags = {}

\* The statements that come before m.Reset() and those that come after it.
BeforeReset == {"resetElems", "clear", "save", "retOneof", "retMsg", "saveOneof"}

AfterReset == {"restore", "restoreOneof"}

At(S, op) == {k \in 1 .. Len(S) : S[k].op = op}

\* A body S has one m.Reset(), the captures and the returns before it, the
\* reassignments after it; f<i> is captured once, from one field, and is
\* assigned once, to that field; saved<g> is captured from the oneof g and
\* assigned to the oneof g.
OrderedBody(S) ==
  /\ Cardinality(At(S, "Reset")) = 1
  /\ \A p \in At(S, "Reset") :
       /\ \A k \in 1 .. (p - 1) : S[k].op \in BeforeReset
       /\ \A k \in (p + 1) .. Len(S) : S[k].op \in AfterReset
  /\ \A j \in At(S, "save") :
       /\ \A j2 \in At(S, "save") : S[j2].i = S[j].i => j2 = j
       /\ Cardinality({k \in At(S, "restore") : S[k].i = S[j].i}) = 1
  /\ \A k \in At(S, "restore") :
       \E j \in At(S, "save") : S[j].i = S[k].i /\ S[j].f = S[k].f
  /\ \A j \in At(S, "saveOneof") :
       Cardinality({k \in At(S, "restoreOneof") : S[k].g = S[j].g}) = 1
  /\ \A k \in At(S, "restoreOneof") :
       \E j \in At(S, "saveOneof") : S[j].g = S[k].g

\* Every body the generator emits for the field lists of the model, with Child
\* pool-eligible and not, in every order of the loops over oneofGroups.
BodiesOrdered ==
  \A fields \in {MsgFields, ChildFields, TwoOneofFields}, c \in {Config, ChildExcluded} :
    \A so \in GroupOrders(c, fields), ro \in GroupOrders(c, fields) :
      OrderedBody(GenResetVT(c, fields, so, ro))

\* The fields of Msg for which ResetVT captures no handle.
Unsaved == {"Num", "Opt", "Name", "Tags", "Child"}

(***************************************************************************)
(* C17: in every generated ResetVT body m.Reset() comes once, after every  *)
(* capture of a handle and every return of a nested message and before     *)
(* every reassignment, and each handle is assigned to the field it was     *)
(* captured from; after ResetVT has run, each slice field is on the array  *)
(* it was on, and every field without a handle has its zero value.         *)
(***************************************************************************)
C17_ResetBetween ==
  /\ BodiesOrdered
  /\ \A i \in MsgIds : JustReset(i) =>
       /\ \A f \in Unsaved : msgs[i][f] = ZeroMsg[f]
       /\ \A f \in SliceFields \cup {"Kids"} :
            /\ msgs[i][f].arr = snap[i][f].arr
            /\ msgs[i][f].len = 0
            /\ Cap(msgs[i][f]) = Cap(snap[i][f])

\* ResetVT has run on an instance with a value in a field without a handle
\* and with an array in a field with one.
C17_Witness ==
  \E t \in Threads, f \in SliceFields :
    /\ pc[t] = "put"
    /\ snap[cur[t]].Num = 1
    /\ snap[cur[t]][f].arr # 0
    /\ snap[cur[t]][f].len > 0
    /\ msgs[cur[t]].Num = 0
    /\ msgs[cur[t]][f].arr = snap[cur[t]][f].arr

(***************************************************************************)
(* Callers of MsgFromVTPool, with what each call found in the pool and     *)
(* what it returned.                                                       *)
(***************************************************************************)
Called(x, fresh, after) ==
  [by |-> "FromVTPool", x |-> x, fresh |-> fresh, before |-> pool, after |-> after]

\* func MsgFromVTPool() *Msg { return vtprotoPool_Msg.Get().(*Msg) }
FromVTPool(t) ==
  /\ \/ \E i \in MsgIds : FromVTPoolTake(t, i) /\ call' = Called(i, FALSE, pool')
     \/ FromVTPoolNew(t) /\ call' = Called(nMsg', TRUE, pool')
  /\ UNCHANGED <<writes, phase, sent, goog, rcvd, gen>>

\* m.Num = 1 by the holder of m
SetNum(t, i) ==
  /\ writes < MaxWrites
  /\ writes' = writes + 1
  /\ WriteValue(t, i, "Num")
  /\ UNCHANGED wireVars

NextAcquire ==
  \E t \in Threads, i \in MsgIds :
    \/ FromVTPool(t)
    \/ Return(t, i)
    \/ SetNum(t, i)

SpecAcquire == InitPool /\ [][NextAcquire]_vars

(***************************************************************************)
(* C18: every call of MsgFromVTPool returns an instance, which is not in   *)
(* the pool afterwards: either one that was in the pool, taken out of it,  *)
(* or a new one with every field zero, the pool left as it was; it is a    *)
(* new one whenever the pool was empty.                                    *)
(***************************************************************************)
C18_AcquireReturnsInstance ==
  call.by = "FromVTPool" =>
    /\ call.x \in MsgIds
    /\ call.after[call.x] = 0
    /\ InPool(call.before) = {} => call.fresh
    /\ call.fresh =>
         /\ acq[call.x] = ZeroMsg
         /\ call.after = call.before
    /\ ~call.fresh =>
         /\ call.before[call.x] > 0
         /\ call.after = [call.before EXCEPT ![call.x] = @ - 1]

\* A call has returned an instance that was returned to the pool with a
\* value in it.
C18_Witness ==
  /\ call.by = "FromVTPool"
  /\ ~call.fresh
  /\ snap[call.x].Num = 1
  /\ call.before[call.x] = 1
  /\ pool[call.x] = 0

(***************************************************************************)
(* C18 as stated: a call of MsgFromVTPool that finds an instance in the    *)
(* pool takes one out of it and returns it, and a call returns a new       *)
(* instance only when the pool is empty.                                   *)
(***************************************************************************)
C18_TakesWhenNotEmpty ==
  call.by = "FromVTPool" /\ InPool(call.before) # {} => ~call.fresh

(***************************************************************************)
(* Calls of ShouldPool under every configuration of the two lists, on the  *)
(* nil message and on messages with every setting of the annotation.       *)
(***************************************************************************)
Askable ==
  {MsgTypes.None} \cup
  {[isNil |-> FALSE, ident |-> n, mempool |-> a, mapEntry |-> FALSE, opaque |-> FALSE] :
     n \in Idents, a \in Mempools}

InitShouldPool ==
  /\ InitHeap
  /\ \E c \in Configs : gen = [NoGen EXCEPT !.cfg = c]
  /\ call = NoCall

CallShouldPool ==
  /\ \E message \in Askable :
       call' = [by |-> "ShouldPool", message |-> message, result |-> ShouldPool(gen.cfg, message)]
  /\ UNCHANGED <<msgs, kids, nMsg, nKid, pool, kpool, held, heldK, pc, cur, writes, snap, acq,
                 phase, sent, goog, rcvd, gen>>

NextShouldPool == CallShouldPool

SpecShouldPool == InitShouldPool /\ [][NextShouldPool]_vars

\* The message of the last call is on the exclude list, on the include list.
Excluded == ~call.message.isNil /\ call.message.ident \in gen.cfg.PoolableExclude

Included == ~call.message.isNil /\ call.message.ident \in gen.cfg.Poolable

(***************************************************************************)
(* C19: ShouldPool returns false for the nil message and for a message on  *)
(* the exclude list, whatever the include list and the annotation say;     *)
(* otherwise true for a message on the include list, whatever the          *)
(* annotation says; otherwise the annotation, and false without one.       *)
(***************************************************************************)
C19_Precedence ==
  call.by = "ShouldPool" =>
    /\ call.message.isNil \/ Excluded => call.result = FALSE
    /\ ~call.message.isNil /\ ~Excluded /\ Included => call.result = TRUE
    /\ ~call.message.isNil /\ ~Excluded /\ ~Included =>
         /\ call.message.mempool = "true" => call.result = TRUE
         /\ call.message.mempool = "false" => call.result = FALSE
         /\ call.message.mempool = "none" => call.result = FALSE

\* ShouldPool has said no to a message that is on both lists and annotated
\* mempool = true.
C19_Witness ==
  /\ call.by = "ShouldPool"
  /\ Excluded
  /\ Included
  /\ call.message.mempool = "true"
  /\ call.result = FALSE

\* The lines of a run that carry the name of a message.
LinesOf(r, ident) == {k \in 1 .. Len(gen.out[r]) : gen.out[r][k].f = ident}

PoolCode == {"var vtprotoPool", "func ResetVT", "func ReturnToVTPool", "func FromVTPool"}

\* Run r has emitted the pool, ResetVT, ReturnToVTPool and FromVTPool of the
\* message, each once; it has emitted none of them.
GotPoolCode(r, ident) ==
  \A op \in PoolCode : Cardinality({k \in LinesOf(r, ident) : gen.out[r][k].op = op}) = 1

GotNothing(r, ident) ==
  \A k \in LinesOf(r, ident) : gen.out[r][k].op \notin PoolCode

(***************************************************************************)
(* C20: when GenerateFile has returned, each message of the file, nested   *)
(* ones included and whatever their parent is, has its pool, ResetVT,      *)
(* ReturnToVTPool and FromVTPool if it is pool-eligible, not a map entry   *)
(* and not of the opaque API, and has none of them otherwise; and          *)
(* GenerateFile has returned true if and only if some message has them.    *)
(***************************************************************************)
C20_PoolCodeIffEligible ==
  \A r \in 1 .. Len(gen.ret) :
    \E all \in {Visit(gen.file)} :
      /\ \A k \in 1 .. Len(all) :
           IF ShouldPool(gen.cfg, all[k]) /\ ~all[k].mapEntry /\ ~all[k].opaque
             THEN GotPoolCode(r, all[k].ident)
             ELSE GotNothing(r, all[k].ident)
      /\ gen.ret[r] = (\E k \in 1 .. Len(all) : GotPoolCode(r, all[k].ident))

\* GenerateFile has returned true for a file whose one top-level message has
\* no pool code and whose nested message has it.
C20_Witness ==
  /\ Len(gen.ret) = 2
  /\ Len(gen.file) = 1
  /\ Len(gen.file[1].nested) = 1
  /\ GotNothing(1, gen.file[1].ident)
  /\ ~ShouldPool(gen.cfg, gen.file[1])
  /\ GotPoolCode(1, gen.file[1].nested[1].ident)
  /\ gen.ret[1] = TRUE

(***************************************************************************)
(* The transport codecs on any value.  What a codec asks of the value v it *)
(* is given is its method set: vt says v has MarshalVT and UnmarshalVT     *)
(* (vtprotoMessage), resetVT that it has ResetVT (vtprotoResetter), reset  *)
(* that it has Reset (protoResetter).  The result of a call is what v      *)
(* holds afterwards (m, ks, kp), the bytes and the error returned, whether *)
(* the call panicked instead of returning, and the methods of v it called, *)
(* in order (trace).                                                       *)
(***************************************************************************)
ValueKinds == [vt : BOOLEAN, resetVT : BOOLEAN, reset : BOOLEAN]

MissingHelpers == "missing vtprotobuf helpers"

Res(m, ks, kp, data, isNil, err, panic, trace) ==
  [m |-> m, ks |-> ks, kp |-> kp, data |-> data, isNil |-> isNil, err |-> err,
   panic |-> panic, trace |-> trace]

\* return vt.MarshalVT()
CallMarshalVT(m, ks, kp, ord) ==
  LET r == MarshalVT(m, ks, ord)
  IN Res(m, ks, kp, r.data, FALSE, "", r.panic, <<"MarshalVT">>)

\* return vt.UnmarshalVT(data), on what the reset has left in e
CallUnmarshalVT(data, e, trace) ==
  LET d == UnmarshalVT(data, 1, DecEnv(e.m, e.kids))
  IN Res(d.m, d.kids, e.kpool, <<>>, TRUE, d.err, FALSE, Append(trace, "UnmarshalVT"))

\* func (Codec) Marshal(v interface{}) ([]byte, error)
GrpcMarshalOf(kind, m, ks, kp, ord) ==
  IF ~kind.vt THEN Res(m, ks, kp, <<>>, TRUE, MissingHelpers, FALSE, <<>>)
  ELSE CallMarshalVT(m, ks, kp, ord)

\* A Codec.Unmarshal that resets the value before it looks for the helpers.
GrpcUnmarshalResetsFirst(kind, data, m, ks, kp) ==
  LET e == Env("Msg", m, ks, kp)
      r == IF kind.resetVT THEN ResetVT(e) ELSE IF kind.reset THEN [e EXCEPT !.m = ZeroMsg] ELSE e
  IN IF ~kind.vt THEN Res(r.m, r.kids, r.kpool, <<>>, TRUE, MissingHelpers, FALSE, <<>>)
     ELSE CallUnmarshalVT(data, r, IF kind.resetVT THEN <<"ResetVT">>
                                   ELSE IF kind.reset THEN <<"Reset">> ELSE <<>>)

\* A Codec.Unmarshal that decodes first and resets afterwards.
GrpcUnmarshalResetsLast(kind, data, m, ks, kp) ==
  IF ~kind.vt THEN Res(m, ks, kp, <<>>, TRUE, MissingHelpers, FALSE, <<>>)
  ELSE LET d == CallUnmarshalVT(data, Env("Msg", m, ks, kp), <<>>)
           e == Env("Msg", d.m, d.ks, d.kp)
           r == IF kind.resetVT THEN ResetVT(e) ELSE IF kind.reset THEN [e EXCEPT !.m = ZeroMsg] ELSE e
       IN [d EXCEPT !.m = r.m, !.ks = r.kids, !.kp = r.kpool,
                    !.trace = IF kind.resetVT THEN Append(@, "ResetVT")
                              ELSE IF kind.reset THEN Append(@, "Reset") ELSE @]

\* func (Codec) Unmarshal(data []byte, v interface{}) error
GrpcUnmarshalOf(kind, data, m, ks, kp) ==
  IF ~kind.vt THEN Res(m, ks, kp, <<>>, TRUE, MissingHelpers, FALSE, <<>>)
  ELSE IF kind.resetVT
    THEN CallUnmarshalVT(data, ResetVT(Env("Msg", m, ks, kp)), <<"ResetVT">>)
  ELSE IF kind.reset
    THEN CallUnmarshalVT(data, [Env("Msg", m, ks, kp) EXCEPT !.m = ZeroMsg], <<"Reset">>)
  ELSE CallUnmarshalVT(data, Env("Msg", m, ks, kp), <<>>)

\* func Marshal(msg interface{}) ([]byte, error): msg.(vtprotoMessage) panics
\* on a value without the helpers
DrpcMarshalOf(kind, m, ks, kp, ord) ==
  IF ~kind.vt THEN Res(m, ks, kp, <<>>, TRUE, "", TRUE, <<>>)
  ELSE CallMarshalVT(m, ks, kp, ord)

\* A drpc Unmarshal that prefers Reset to ResetVT.
DrpcUnmarshalPrefersReset(kind, data, m, ks, kp) ==
  LET e == Env("Msg", m, ks, kp)
      r == IF kind.reset THEN [e EXCEPT !.m = ZeroMsg] ELSE IF kind.resetVT THEN ResetVT(e) ELSE e
      trace == IF kind.reset THEN <<"Reset">> ELSE IF kind.resetVT THEN <<"ResetVT">> ELSE <<>>
  IN IF ~kind.vt THEN Res(r.m, r.kids, r.kpool, <<>>, TRUE, "", TRUE, trace)
     ELSE CallUnmarshalVT(data, r, trace)

\* func Unmarshal(buf []byte, msg interface{}) error: the reset comes before
\* msg.(vtprotoMessage), which panics on a value without the helpers
DrpcUnmarshalOf(kind, data, m, ks, kp) ==
  LET e == Env("Msg", m, ks, kp)
      r == IF kind.resetVT THEN ResetVT(e) ELSE IF kind.reset THEN [e EXCEPT !.m = ZeroMsg] ELSE e
      trace == IF kind.resetVT THEN <<"ResetVT">> ELSE IF kind.reset THEN <<"Reset">> ELSE <<>>
  IN IF ~kind.vt THEN Res(r.m, r.kids, r.kpool, <<>>, TRUE, "", TRUE, trace)
     ELSE CallUnmarshalVT(data, r, trace)

\* The streams given to Unmarshal: empty, one field, a repeated field, and a
\* field followed by a tag with nothing after it.
CodecStreams ==
  {<<>>,
   VarintField(Number("Num"), 2),
   VarintField(Number("Items"), 1),
   VarintField(Number("Num"), 2) \o Tag(Number("Opt"), WireVarint)}

\* A call of a codec on instance i as a value of some kind, and what it leaves
CodecCall(name, kind, data, ord, t, i, r) ==
  /\ phase = "build"
  /\ Holds(t, i)
  /\ msgs' = [msgs EXCEPT ![i] = r.m]
  /\ kids' = r.ks
  /\ kpool' = [c \in 1 .. Len(r.ks) |-> IF c <= Len(r.kp) THEN r.kp[c] ELSE 0]
  /\ nKid' = IF Len(r.ks) > Len(kids) THEN Len(r.ks) ELSE nKid
  /\ heldK' = [heldK EXCEPT ![t] = (@ \ {c \in DOMAIN r.kp : r.kp[c] > kpool[c]}) \cup Reach(r.m)]
  /\ call' = [by |-> name, kind |-> kind, data |-> data, ord |-> ord,
              before |-> msgs[i], ks |-> kids, kp |-> kpool, res |-> r]
  /\ phase' = "done"
  /\ UNCHANGED <<nMsg, pool, held, pc, cur, writes, snap, acq, sent, goog, rcvd, gen>>

GrpcMarshalCall(t, i) ==
  \E kind \in ValueKinds, ord \in MapOrders(msgs[i].Tags) :
    CodecCall("grpc.Marshal", kind, <<>>, ord, t, i, GrpcMarshalOf(kind, msgs[i], kids, kpool, ord))

DrpcMarshalCall(t, i) ==
  \E kind \in ValueKinds, ord \in MapOrders(msgs[i].Tags) :
    CodecCall("drpc.Marshal", kind, <<>>, ord, t, i, DrpcMarshalOf(kind, msgs[i], kids, kpool, ord))

GrpcUnmarshalCall(t, i) ==
  \E kind \in ValueKinds, data \in CodecStreams :
    CodecCall("grpc.Unmarshal", kind, data, <<>>, t, i, GrpcUnmarshalOf(kind, data, msgs[i], kids, kpool))

DrpcUnmarshalCall(t, i) ==
  \E kind \in ValueKinds, data \in CodecStreams :
    CodecCall("drpc.Unmarshal", kind, data, <<>>, t, i, DrpcUnmarshalOf(kind, data, msgs[i], kids, kpool))

\* What the caller has put into the value before the call
ValueWrite(t, i) ==
  /\ phase = "build"
  /\ writes < MaxWrites
  /\ writes' = writes + 1
  /\ \/ WireWriteValue(t, i, "Num")
     \/ WriteSlice(t, i, "Items")
     \/ WriteChild(t, i)
     \/ WriteRaw(t, i)
  /\ UNCHANGED wireVars

NextValues ==
  \/ ValueWrite(1, 1)
  \/ GrpcMarshalCall(1, 1)
  \/ DrpcMarshalCall(1, 1)
  \/ GrpcUnmarshalCall(1, 1)
  \/ DrpcUnmarshalCall(1, 1)

SpecValues == InitWire /\ [][NextValues]_vars

(***************************************************************************)
(* C21: Codec.Marshal and Codec.Unmarshal of the grpc codec, given a value *)
(* without MarshalVT and UnmarshalVT, return an error and do not panic,    *)
(* Marshal with nil bytes; they call no method of the value, and the value *)
(* and the pools are afterwards what they were before the call.            *)
(***************************************************************************)
C21_NoHelpersNoTouch ==
  call.by \in {"grpc.Marshal", "grpc.Unmarshal"} /\ ~call.kind.vt =>
    /\ call.res.err # ""
    /\ ~call.res.panic
    /\ call.res.trace = <<>>
    /\ call.by = "grpc.Marshal" => call.res.isNil /\ call.res.data = <<>>
    /\ msgs[1] = call.before
    /\ kids = call.ks
    /\ kpool = call.kp

\* Codec.Unmarshal has returned on a value that has ResetVT and Reset and
\* not the helpers, and that holds a number and a nested message.
C21_Witness ==
  /\ call.by = "grpc.Unmarshal"
  /\ ~call.kind.vt /\ call.kind.resetVT /\ call.kind.reset
  /\ call.before.Num # 0
  /\ call.before.Child # 0
  /\ msgs[1].Num = call.before.Num
  /\ call.res.err = MissingHelpers

\* What the reset of a value of the kind of the last call leaves of what the
\* value held before the call: ResetVT if the value has it, else Reset if
\* it has that, else nothing.
Expected ==
  LET e == Env("Msg", call.before, call.ks, call.kp)
  IN IF call.kind.resetVT THEN [e |-> ResetVT(e), trace |-> <<"ResetVT">>]
     ELSE IF call.kind.reset THEN [e |-> [e EXCEPT !.m = ZeroMsg], trace |-> <<"Reset">>]
     ELSE [e |-> e, trace |-> <<>>]

(***************************************************************************)
(* C22: Unmarshal of either codec on a value with the helpers calls        *)
(* ResetVT if the value has it, otherwise Reset if it has that, otherwise  *)
(* neither, never both, and then UnmarshalVT, once, on what the reset has  *)
(* left; it returns the error of UnmarshalVT; and when that is an error    *)
(* the value holds what was decoded up to it into the reset value, which   *)
(* keeps none of the values it held before.                                *)
(***************************************************************************)
C22_ResetThenDecode ==
  call.by \in {"grpc.Unmarshal", "drpc.Unmarshal"} /\ call.kind.vt =>
    \E x \in {Expected} :
    \E d \in {UnmarshalVT(call.data, 1, DecEnv(x.e.m, x.e.kids))} :
      /\ call.res.trace = Append(x.trace, "UnmarshalVT")
      /\ ~call.res.panic
      /\ call.res.err = d.err
      /\ msgs[1] = d.m
      /\ kids = d.kids
      /\ call.kind.resetVT \/ call.kind.reset => CarriesNoValue(x.e.m)

\* Unmarshal has returned an error on a value with ResetVT that held a list:
\* the list is empty and the field decoded before the error is set.
C22_Witness ==
  /\ call.by = "drpc.Unmarshal"
  /\ call.kind.vt /\ call.kind.resetVT /\ call.kind.reset
  /\ call.res.trace = <<"ResetVT", "UnmarshalVT">>
  /\ call.res.err # ""
  /\ call.before.Items.len > 0
  /\ call.before.Num = 1
  /\ msgs[1].Items.len = 0
  /\ msgs[1].Num = 2

(***************************************************************************)
(* C23: a repeated scalar field that had length n and capacity c on an     *)
(* array when ResetVT ran is afterwards of length 0 and capacity c on the  *)
(* same array; the array still holds the old elements, and the field       *)
(* reads as the empty list.                                                *)
(***************************************************************************)
C23_ScalarListKept ==
  \A i \in MsgIds : JustReset(i) =>
    /\ msgs[i].Items.len = 0
    /\ msgs[i].Items.arr = snap[i].Items.arr
    /\ Cap(msgs[i].Items) = Cap(snap[i].Items)
    /\ msgs[i].Items.store = snap[i].Items.store
    /\ Elems(msgs[i].Items) = <<>>
    /\ View(msgs[i], kids).Items = <<>>

\* ResetVT has run on an instance whose repeated scalar field held elements
\* on an array of the largest capacity.
C23_Witness ==
  \E t \in Threads :
    /\ pc[t] = "put"
    /\ snap[cur[t]].Items.len > 0
    /\ Cap(snap[cur[t]].Items) = MaxCap
    /\ msgs[cur[t]].Items.len = 0
    /\ msgs[cur[t]].Items.store[1] = 1

(***************************************************************************)
(* C24: no Child that is in the Child pool is referenced from a Msg,       *)
(* neither from its singular field, nor from its oneof, nor from the       *)
(* array of its repeated field, within the length or beyond it; after      *)
(* ResetVT the Child of the singular field and of the oneof are in the     *)
(* pool and the Msg has let go of them, and the elements left in the array *)
(* of the repeated field are not in the pool.                              *)
(***************************************************************************)
C24_PooledNotReferenced ==
  /\ \A i \in MsgIds : \A c \in Reach(msgs[i]) : kpool[c] = 0
  /\ \A t \in Threads : pc[t] = "put" =>
       /\ \A c \in DirectChildren(snap[cur[t]]) : kpool[c] > 0 /\ c \notin Reach(msgs[cur[t]])
       /\ \A c \in Range(snap[cur[t]].Kids.store) \ {0} :
            c \in Reach(msgs[cur[t]]) /\ kpool[c] = 0

\* ResetVT has run on an instance that held a Child in its singular field,
\* now in the pool, and another in its repeated field, still in the array.
C24_Witness ==
  \E t \in Threads :
    /\ pc[t] = "put"
    /\ snap[cur[t]].Child # 0
    /\ kpool[snap[cur[t]].Child] = 1
    /\ snap[cur[t]].Kids.len = 1
    /\ msgs[cur[t]].Kids.len = 0
    /\ msgs[cur[t]].Kids.store[1] = snap[cur[t]].Kids.store[1]
    /\ msgs[cur[t]].Kids.store[1] # 0

(***************************************************************************)
(* C25: ResetVT applied twice in a row to an instance leaves the instance, *)
(* the nested messages and the pools as ResetVT applied once leaves them:  *)
(* the same lengths, arrays and capacities, the same retained wrapper, the *)
(* same absent fields, and no nested message put into a pool by the second *)
(* application; ResetVT of a nested message puts nothing into a pool, and  *)
(* ResetVT and ReturnToVTPool on a nil receiver change nothing.            *)
(***************************************************************************)
C25_ResetTwiceIsOnce ==
  /\ \A t \in Threads : \A i \in held[t] :
       \E r \in {ResetVT(Env("Msg", msgs[i], kids, kpool))} : ResetVT(r) = r
  /\ \E e \in {Env("Msg", ZeroMsg, kids, kpool)} :
       /\ \A c \in KidIds : ChildResetVT(e, c).kpool = kpool
       /\ ChildResetVT(e, 0) = e
       /\ ChildReturnToVTPool(e, 0) = e
  /\ \A t \in Threads : pc[t] = "put" =>
       \E e \in {Env("Msg", msgs[cur[t]], kids, kpool)} : ResetVT(e) = e

\* ResetVT has run on an instance that held a nested message, now in the
\* pool once, and bytes in its oneof, whose wrapper it still has.
C25_Witness ==
  \E t \in Threads :
    /\ pc[t] = "put"
    /\ snap[cur[t]].Child # 0
    /\ kpool[snap[cur[t]].Child] = 1
    /\ msgs[cur[t]].Child = 0
    /\ snap[cur[t]].Choice.raw.len > 0
    /\ Cap(msgs[cur[t]].Choice.raw) = Cap(snap[cur[t]].Choice.raw)
    /\ msgs[cur[t]].Choice.tag = snap[cur[t]].Choice.tag
    /\ msgs[cur[t]].Choice.raw.len = 0

(***************************************************************************)
(* C26: on a value with MarshalVT and UnmarshalVT the grpc codec and the   *)
(* drpc codec do the same, given the same value and bytes: the same reset, *)
(* the same value afterwards, the same bytes and the same error.  On a     *)
(* value without them the grpc codec returns an error and leaves the value *)
(* as it was, and the drpc codec panics, its Unmarshal after the reset the *)
(* value has: ResetVT, else Reset, else none.                              *)
(***************************************************************************)
C26_CodecsAgree ==
  call.by \in {"grpc.Marshal", "drpc.Marshal", "grpc.Unmarshal", "drpc.Unmarshal"} =>
    \E un \in {call.by \in {"grpc.Unmarshal", "drpc.Unmarshal"}} :
    \E g \in {IF un THEN GrpcUnmarshalOf(call.kind, call.data, call.before, call.ks, call.kp)
                     ELSE GrpcMarshalOf(call.kind, call.before, call.ks, call.kp, call.ord)} :
    \E d \in {IF un THEN DrpcUnmarshalOf(call.kind, call.data, call.before, call.ks, call.kp)
                     ELSE DrpcMarshalOf(call.kind, call.before, call.ks, call.kp, call.ord)} :
      /\ call.res = (IF call.by \in {"grpc.Marshal", "grpc.Unmarshal"} THEN g ELSE d)
      /\ call.kind.vt => g = d
      /\ ~call.kind.vt =>
           /\ g.err = MissingHelpers /\ ~g.panic /\ g.trace = <<>>
           /\ g.m = call.before /\ g.ks = call.ks /\ g.kp = call.kp
           /\ d.panic
           /\ \E x \in {IF un THEN Expected
                                ELSE [e |-> Env("Msg", call.before, call.ks, call.kp), trace |-> <<>>]} :
                d.trace = x.trace /\ d.m = x.e.m /\ d.ks = x.e.kids /\ d.kp = x.e.kpool

\* Unmarshal of the drpc codec has returned without an error on a value with
\* the helpers, ResetVT and Reset, that held a list and a nested message.
C26_Witness ==
  /\ call.by = "drpc.Unmarshal"
  /\ call.kind.vt /\ call.kind.resetVT /\ call.kind.reset
  /\ call.res.trace = <<"ResetVT", "UnmarshalVT">>
  /\ call.res.err = ""
  /\ call.before.Items.len > 0
  /\ call.before.Child # 0
  /\ call.data # <<>>
  /\ msgs[1].Child = 0
  /\ msgs[1].Num = 2

====
